---- MODULE Spec2Model ----
(***************************************************************************)
(* A model of Soundless-Sonar's real-time core: the capturer queues, the   *)
(* audio sink and the ring buffers (src/src/main.rs), the sliding          *)
(* aggregator (sonar_presence::Aggregator), and the tick loops of the      *)
(* presence mode (src/src/mods/presence.rs) and of the gated mode          *)
(* (src/src/mods/gated.rs) with their hysteresis state machine.            *)
(*                                                                         *)
(* Units: wall time, segment bounds and durations are integers in          *)
(* milliseconds; fractions (enter_frac, exit_frac, agg_frac, strengths,    *)
(* similarities) are integers in percent; distances are in decimetres.     *)
(* A ratio the code computes in f32 is kept as an exact pair [n, d].       *)
(***************************************************************************)
EXTENDS Integers, Sequences, FiniteSets

VARIABLES
    \* ---- capture pipeline (main.rs) ----
    chan,           \* [Src -> Seq(block)]: the bounded channel of each capturer
    closed,         \* [Src -> BOOLEAN]: the capturer dropped its Sender
    sent,           \* [Src -> Nat]: samples produced so far (sample k is the number k)
    ring,           \* [Src -> Seq(Nat)]: SharedBuf.buf
    sinkPc,         \* [Src -> position of audio_sink_thread]
    sinkBlock,      \* [Src -> the block the sink has received]
    bufLock,        \* [Src -> holder of SharedBuf.buf's mutex]
    srLock,         \* [Src -> holder of SharedBuf.sr's mutex]
    schedPc,        \* position of the scheduler inside its snapshot code
    snap,           \* the latest copy the scheduler took out of a ring
    \* ---- scheduler loop (presence.rs, gated.rs) ----
    mode,           \* cli.mode: "presence" or "gated"
    cfg,            \* the Config record (fixed after parse_arguments)
    pc,             \* "run", "stopped" (Ok) or "failed" (Err) of the loop
    quit,           \* the AtomicBool set by the Ctrl+C handler
    now,            \* the monotonic clock (Instant::now()), in ms
    next,           \* the loop's absolute deadline
    ticks,          \* iterations started so far
    agg,            \* Aggregator.history (gated)
    analyzer,       \* MultiMeasurementAnalyzer.history (presence)
    smooth_present, \* the smoothed state
    last_flip,      \* the Instant of the last flip
    aligned,        \* gated: None or [url, t0]
    csv,            \* the rows appended to Detection.csv
    loc,            \* the locals of the latest loop iteration
    lastChange,     \* history: when and how smooth_present last changed value
    ioFaults,       \* environment: whether writes to the log file may fail
    \* ---- Aggregator driven alone ----
    pushed,         \* every vote handed to Aggregator::push, in order
    ret,            \* what the latest Aggregator::push returned
    \* ---- functions called alone ----
    call            \* [fn, in, out, done]: one call of a function and its result

ringVars == <<chan, closed, sent, ring, sinkPc, sinkBlock, bufLock, srLock, schedPc, snap>>
loopVars == <<mode, pc, quit, now, next, ticks, analyzer, smooth_present, last_flip,
              aligned, csv, loc, lastChange, ioFaults>>
aggVars == <<agg, pushed, ret>>
vars == <<ringVars, loopVars, aggVars, cfg, call>>

\* Option<(f32, f32)>: a vote or an estimate; None carries zeroes.
NoneVote == [some |-> FALSE, d |-> 0, s |-> 0]
SomeVote(d, s) == [some |-> TRUE, d |-> d, s |-> s]

\* The distances (dm) and strengths (percent) an estimate can carry.
DistVals == {5, 12}
StrVals == {5, 90}

\* The votes the gated loop can push: None, or an estimate that qualifies.
Votes == {NoneVote} \cup {SomeVote(d, 90) : d \in DistVals}

\* Option<(bool, f64, f64, f32)>: what Aggregator::push returns.
NoneAgg == [some |-> FALSE, present |-> FALSE, avg_d |-> [inf |-> FALSE, n |-> 0, d |-> 1],
            avg_s |-> [n |-> 0, d |-> 1], agree |-> [n |-> 0, d |-> 1]]

Max(a, b) == IF a >= b THEN a ELSE b
Min(a, b) == IF a <= b THEN a ELSE b

\* A drain that removes the newest n elements.
DropBack(s, n) == SubSeq(s, 1, Len(s) - n)

\* The suffix of s that remains after dropping its first n elements (Vec::drain(0..n)).
DropFront(s, n) == SubSeq(s, n + 1, Len(s))

\* The last n elements of s.
LastN(s, n) == DropFront(s, Len(s) - Min(n, Len(s)))

(***************************************************************************)
(* Bounds of the model.                                                    *)
(***************************************************************************)
\* The (scaled-down) sample rate of the microphone, in Hz.
SampleRate == 1
\* The scaled-down frame length the scheduler snapshots (analysis_len).
AnalysisLen == 3
\* Samples a capturer produces before the model stops it.
MaxSent == 11
\* Loop iterations before the model stops the scheduler.
MaxTicks == 9
\* Pushes in the specification that drives the Aggregator alone.
MaxPushes == 6

(***************************************************************************)
(* Program constants.                                                      *)
(***************************************************************************)
\* bounded::<Vec<f32>>(8)
QueueCap == 8
\* The ring holds sr * 10 samples.
RingSeconds == 10
\* Alignment is dropped 60 s after the last segment's end.
DropAfterMs == 60000

(***************************************************************************)
(* Configurations (Config, parse_arguments) and stored songs the model     *)
(* runs under.                                                             *)
(***************************************************************************)
\* Gated, one tick per second, a two-tick window, a 3 s dwell (--min-dwell-ms
\* 3000) and the default thresholds.
GatedFine ==
    [tick_ms |-> 1000, window_sec |-> 2, agg_frac |-> 50, min_dwell_ms |-> 3000,
     exit_frac |-> 30, enter_frac |-> 60, strength_thr |-> 20, dist_max_m |-> 15,
     front_min_m |-> 3, front_max_m |-> 15, guard_s |-> 500, fp_thr |-> 60, fp_margin |-> 7,
     scansong_path |-> "SongScan.csv"]

\* Gated, one tick per 20 s (so window_cap is 1), a long dwell, and
\* --fp-thr 0 --fp-margin 0.
GatedCoarse ==
    [tick_ms |-> 20000, window_sec |-> 1, agg_frac |-> 50, min_dwell_ms |-> 50000,
     exit_frac |-> 30, enter_frac |-> 60, strength_thr |-> 20, dist_max_m |-> 15,
     front_min_m |-> 3, front_max_m |-> 15, guard_s |-> 500, fp_thr |-> 0, fp_margin |-> 0,
     scansong_path |-> "SongScan.csv"]

\* GatedCoarse with --guard-s 80: the guard is wider than the 60 s after
\* which an alignment is dropped.
GatedWideGuard == [GatedCoarse EXCEPT !.guard_s = 80000]

\* Gated, one tick per second, a three-tick window (--window-sec 3),
\* --guard-s 80, and --scansong-path naming a file whose one song has its
\* fingerprint 80 s into the track.
GatedCarry ==
    [GatedFine EXCEPT !.window_sec = 3, !.guard_s = 80000, !.min_dwell_ms = 1000,
                      !.scansong_path = "LateScan.csv"]

\* Presence, one tick per second, a three-tick window.
PresenceCfg ==
    [tick_ms |-> 1000, window_sec |-> 3, agg_frac |-> 50, min_dwell_ms |-> 2000,
     exit_frac |-> 30, enter_frac |-> 60, strength_thr |-> 20, dist_max_m |-> 15,
     front_min_m |-> 3, front_max_m |-> 15, guard_s |-> 500, fp_thr |-> 60, fp_margin |-> 7,
     scansong_path |-> "SongScan.csv"]

\* The (mode, Config) pairs main can dispatch on.
Runs ==
    {<<"gated", GatedFine>>, <<"gated", GatedCoarse>>, <<"gated", GatedWideGuard>>,
     <<"presence", PresenceCfg>>}

(***************************************************************************)
(* The capture pipeline: capturers, bounded channels, audio_sink_thread,   *)
(* ring buffers, and the scheduler's snapshots of the rings.               *)
(***************************************************************************)
Src == {"mic", "ref"}

\* The block sizes the cpal input callback delivers (the model's choice).
MicBlockSizes == {4, 7}

\* wasapi_loopback::capture_thread: the chunk length it cuts the stream into.
\* run_presence starts it with cli.tick_ms, run_gated with cli.tick_ms.min(50).
LoopbackChunk(m, c) ==
    LET tick == IF m = "gated" THEN Min(c.tick_ms, 50) ELSE c.tick_ms
        chunk == (SampleRate * tick) \div 1000
    IN  IF chunk = 0 THEN 1 ELSE chunk

BlockSizes(s) == IF s = "mic" THEN MicBlockSizes ELSE {LoopbackChunk(mode, cfg)}

\* The samples numbered from + 1 .. from + n.
Block(from, n) == [i \in 1..n |-> from + i]

\* audio_sink_thread: the ring's capacity, read from SharedBuf.sr.
RingCap == SampleRate * RingSeconds

\* A trim that leaves one sample too many (ring.len() - cap - 1).
SinkDropLeak(r) == IF Len(r) > RingCap + 1 THEN Len(r) - RingCap - 1 ELSE 0

\* audio_sink_thread: how many samples ring.drain(0..drop) removes.
SinkDrop(r) == IF Len(r) > RingCap THEN Len(r) - RingCap ELSE 0

\* A channel that never fills.
FullNever(q) == FALSE

\* bounded::<Vec<f32>>(8): the channel is full, and send waits.
Full(q) == Len(q) >= QueueCap

\* A capturer sends one block; send blocks while the channel holds 8 blocks,
\* and succeeds only while the Receiver exists.
CapSend(s) ==
    /\ ~closed[s]
    /\ sinkPc[s] # "done"
    /\ ~Full(chan[s])
    /\ \E n \in BlockSizes(s) :
          /\ sent[s] + n <= MaxSent
          /\ chan' = [chan EXCEPT ![s] = Append(@, Block(sent[s], n))]
          /\ sent' = [sent EXCEPT ![s] = @ + n]
    /\ UNCHANGED <<closed, ring, sinkPc, sinkBlock, bufLock, srLock, schedPc, snap>>
    /\ UNCHANGED <<loopVars, aggVars, cfg, call>>

\* A capturer ends (its stream is dropped, or capture_thread returns): the
\* Sender is dropped and the channel disconnects once drained.
CapClose(s) ==
    /\ ~closed[s]
    /\ closed' = [closed EXCEPT ![s] = TRUE]
    /\ UNCHANGED <<chan, sent, ring, sinkPc, sinkBlock, bufLock, srLock, schedPc, snap>>
    /\ UNCHANGED <<loopVars, aggVars, cfg, call>>

\* tx.send(block) once the Receiver is gone: it returns Err at once and the
\* block is lost.  capture_thread stops the audio client and returns, which
\* drops its Sender; on_audio_input_first_channel discards the result
\* (let _ = tx.send(..)) and cpal calls it again with the next block.
CapSendErr(s) ==
    /\ ~closed[s]
    /\ sinkPc[s] = "done"
    /\ \E n \in BlockSizes(s) :
          /\ sent[s] + n <= MaxSent
          /\ sent' = [sent EXCEPT ![s] = @ + n]
    /\ closed' = [closed EXCEPT ![s] = (s = "ref")]
    /\ UNCHANGED <<chan, ring, sinkPc, sinkBlock, bufLock, srLock, schedPc, snap>>
    /\ UNCHANGED <<loopVars, aggVars, cfg, call>>

\* The sink thread ends while its capturer still runs (a panic of the
\* thread between two blocks): the Receiver is dropped with it.
SinkAbort(s) ==
    /\ sinkPc[s] = "recv"
    /\ ~closed[s]
    /\ sinkPc' = [sinkPc EXCEPT ![s] = "done"]
    /\ UNCHANGED <<chan, closed, sent, ring, sinkBlock, bufLock, srLock, schedPc, snap>>
    /\ UNCHANGED <<loopVars, aggVars, cfg, call>>

\* rx.recv(): Ok(block) while a block is queued, Err once the channel is
\* empty and disconnected (the sink leaves its loop).
SinkRecv(s) ==
    /\ sinkPc[s] = "recv"
    /\ \/ /\ chan[s] # <<>>
          /\ sinkBlock' = [sinkBlock EXCEPT ![s] = Head(chan[s])]
          /\ chan' = [chan EXCEPT ![s] = Tail(@)]
          /\ sinkPc' = [sinkPc EXCEPT ![s] = "lock"]
       \/ /\ chan[s] = <<>>
          /\ closed[s]
          /\ sinkPc' = [sinkPc EXCEPT ![s] = "done"]
          /\ UNCHANGED <<chan, sinkBlock>>
    /\ UNCHANGED <<closed, sent, ring, bufLock, srLock, schedPc, snap>>
    /\ UNCHANGED <<loopVars, aggVars, cfg, call>>

\* shared.buf.lock()
SinkLock(s) ==
    /\ sinkPc[s] = "lock"
    /\ bufLock[s] = "free"
    /\ bufLock' = [bufLock EXCEPT ![s] = "sink"]
    /\ sinkPc' = [sinkPc EXCEPT ![s] = "extend"]
    /\ UNCHANGED <<chan, closed, sent, ring, sinkBlock, srLock, schedPc, snap>>
    /\ UNCHANGED <<loopVars, aggVars, cfg, call>>

\* ring.extend_from_slice(&block)
SinkExtend(s) ==
    /\ sinkPc[s] = "extend"
    /\ ring' = [ring EXCEPT ![s] = @ \o sinkBlock[s]]
    /\ sinkPc' = [sinkPc EXCEPT ![s] = "trim"]
    /\ UNCHANGED <<chan, closed, sent, sinkBlock, bufLock, srLock, schedPc, snap>>
    /\ UNCHANGED <<loopVars, aggVars, cfg, call>>

\* cap = *shared.sr.lock() * 10 (the sr guard is a temporary, released at the
\* end of the statement); if ring.len() > cap, drain the oldest samples.
SinkTrim(s) ==
    /\ sinkPc[s] = "trim"
    /\ srLock[s] = "free"
    /\ ring' = [ring EXCEPT ![s] = DropFront(@, SinkDrop(@))]
    /\ sinkPc' = [sinkPc EXCEPT ![s] = "unlock"]
    /\ UNCHANGED <<chan, closed, sent, sinkBlock, bufLock, srLock, schedPc, snap>>
    /\ UNCHANGED <<loopVars, aggVars, cfg, call>>

\* A sink that keeps the buf guard while it waits for the next block.
SinkKeepsGuard(s) ==
    /\ sinkPc[s] = "unlock"
    /\ sinkBlock' = [sinkBlock EXCEPT ![s] = <<>>]
    /\ sinkPc' = [sinkPc EXCEPT ![s] = "recv"]
    /\ UNCHANGED <<chan, closed, sent, ring, bufLock, srLock, schedPc, snap>>
    /\ UNCHANGED <<loopVars, aggVars, cfg, call>>

\* The end of the Ok(block) arm: the buf guard is dropped.
SinkUnlock(s) ==
    /\ sinkPc[s] = "unlock"
    /\ bufLock' = [bufLock EXCEPT ![s] = "free"]
    /\ sinkBlock' = [sinkBlock EXCEPT ![s] = <<>>]
    /\ sinkPc' = [sinkPc EXCEPT ![s] = "recv"]
    /\ UNCHANGED <<chan, closed, sent, ring, srLock, schedPc, snap>>
    /\ UNCHANGED <<loopVars, aggVars, cfg, call>>

\* The frame the loops copy: empty when the ring is shorter than analysis_len,
\* else its last analysis_len samples.
Frame(r) == IF Len(r) < AnalysisLen THEN <<>> ELSE LastN(r, AnalysisLen)

\* The loops' frame snapshot of ring s: lock buf, copy, drop the guard at the
\* end of the block.  Both loops take mic first, then ref.
SchedLockFrame(s) ==
    /\ schedPc = (IF s = "mic" THEN "idle" ELSE "mic_done")
    /\ bufLock[s] = "free"
    /\ bufLock' = [bufLock EXCEPT ![s] = "sched"]
    /\ schedPc' = (IF s = "mic" THEN "mic_locked" ELSE "ref_locked")
    /\ UNCHANGED <<chan, closed, sent, ring, sinkPc, sinkBlock, srLock, snap>>
    /\ UNCHANGED <<loopVars, aggVars, cfg, call>>

SchedCopyFrame(s) ==
    /\ schedPc = (IF s = "mic" THEN "mic_locked" ELSE "ref_locked")
    /\ snap' = [src |-> s, data |-> Frame(ring[s])]
    /\ schedPc' = (IF s = "mic" THEN "mic_copied" ELSE "ref_copied")
    /\ UNCHANGED <<chan, closed, sent, ring, sinkPc, sinkBlock, bufLock, srLock>>
    /\ UNCHANGED <<loopVars, aggVars, cfg, call>>

\* The guard goes out of scope; the copy moves into mic_frame / ref_frame.
SchedUnlockFrame(s) ==
    /\ schedPc = (IF s = "mic" THEN "mic_copied" ELSE "ref_copied")
    /\ bufLock' = [bufLock EXCEPT ![s] = "free"]
    /\ snap' = [src |-> "idle", data |-> <<>>]
    /\ schedPc' = (IF s = "mic" THEN "mic_done" ELSE "idle")
    /\ UNCHANGED <<chan, closed, sent, ring, sinkPc, sinkBlock, srLock>>
    /\ UNCHANGED <<loopVars, aggVars, cfg, call>>

\* run_gated while arming: lock ref.buf, then ref.sr, clone the whole ring,
\* and drop both guards at the end of the block.
ArmLockBuf ==
    /\ mode = "gated"
    /\ schedPc = "idle"
    /\ bufLock["ref"] = "free"
    /\ bufLock' = [bufLock EXCEPT !["ref"] = "sched"]
    /\ schedPc' = "arm_buf"
    /\ UNCHANGED <<chan, closed, sent, ring, sinkPc, sinkBlock, srLock, snap>>
    /\ UNCHANGED <<loopVars, aggVars, cfg, call>>

ArmLockSr ==
    /\ schedPc = "arm_buf"
    /\ srLock["ref"] = "free"
    /\ srLock' = [srLock EXCEPT !["ref"] = "sched"]
    /\ schedPc' = "arm_sr"
    /\ UNCHANGED <<chan, closed, sent, ring, sinkPc, sinkBlock, bufLock, snap>>
    /\ UNCHANGED <<loopVars, aggVars, cfg, call>>

ArmCopy ==
    /\ schedPc = "arm_sr"
    /\ snap' = [src |-> "loop_recent", data |-> ring["ref"]]
    /\ schedPc' = "arm_copied"
    /\ UNCHANGED <<chan, closed, sent, ring, sinkPc, sinkBlock, bufLock, srLock>>
    /\ UNCHANGED <<loopVars, aggVars, cfg, call>>

ArmUnlock ==
    /\ schedPc = "arm_copied"
    /\ srLock' = [srLock EXCEPT !["ref"] = "free"]
    /\ bufLock' = [bufLock EXCEPT !["ref"] = "free"]
    /\ snap' = [src |-> "idle", data |-> <<>>]
    /\ schedPc' = "idle"
    /\ UNCHANGED <<chan, closed, sent, ring, sinkPc, sinkBlock>>
    /\ UNCHANGED <<loopVars, aggVars, cfg, call>>

(***************************************************************************)
(* sonar_presence::window_cap and sonar_presence::Aggregator.              *)
(***************************************************************************)
\* ((1000 / tick_ms) * window_sec).max(1), in usize arithmetic.
window_cap(window_sec, tick_ms) == Max((1000 \div tick_ms) * window_sec, 1)

\* Aggregator::new: the capacity of the Aggregator of a Config.
AggCap(c) == window_cap(c.window_sec, c.tick_ms)

\* The loop over self.history: cnt, sum_d and sum_s of the Some entries.
RECURSIVE SumVotes(_)
SumVotes(h) ==
    IF h = <<>> THEN [cnt |-> 0, sum_d |-> 0, sum_s |-> 0]
    ELSE LET r == SumVotes(Tail(h))
             v == Head(h)
         IN  IF v.some
             THEN [cnt |-> r.cnt + 1, sum_d |-> r.sum_d + v.d, sum_s |-> r.sum_s + v.s]
             ELSE r

\* An aggregate that reports a mean distance of 0 for a window without votes.
AggregateZeroMean(h, cap, agg_frac) ==
    LET t == SumVotes(h)
    IN  [some |-> TRUE,
         present |-> t.cnt * 100 >= agg_frac * cap,
         avg_d |-> [inf |-> FALSE, n |-> t.sum_d, d |-> Max(t.cnt, 1)],
         avg_s |-> [n |-> t.sum_s, d |-> Max(t.cnt, 1)],
         agree |-> [n |-> t.cnt, d |-> cap]]

\* Aggregator::push, from the count on: (present, avg_d, avg_s, agree).
Aggregate(h, cap, agg_frac) ==
    LET t == SumVotes(h)
    IN  [some |-> TRUE,
         present |-> t.cnt * 100 >= agg_frac * cap,
         avg_d |-> IF t.cnt > 0 THEN [inf |-> FALSE, n |-> t.sum_d, d |-> t.cnt]
                   ELSE [inf |-> TRUE, n |-> 0, d |-> 1],
         avg_s |-> IF t.cnt > 0 THEN [n |-> t.sum_s, d |-> t.cnt] ELSE [n |-> 0, d |-> 1],
         agree |-> [n |-> t.cnt, d |-> cap]]

\* while self.history.len() > self.cap { pop_front }
RECURSIVE TrimFront(_, _)
TrimFront(h, cap) == IF Len(h) > cap THEN TrimFront(Tail(h), cap) ELSE h

\* A push that still answers None when the window has just filled.
AggPushLate(h, cap, agg_frac, vote) ==
    LET h2 == TrimFront(Append(h, vote), cap)
    IN  [history |-> h2,
         out |-> IF Len(h2) <= cap /\ Len(h) < cap THEN NoneAgg ELSE Aggregate(h2, cap, agg_frac)]

\* Aggregator::push: the new history and the returned Option.
AggPush(h, cap, agg_frac, vote) ==
    LET h2 == TrimFront(Append(h, vote), cap)
    IN  [history |-> h2,
         out |-> IF Len(h2) < cap THEN NoneAgg ELSE Aggregate(h2, cap, agg_frac)]

(***************************************************************************)
(* The hysteresis state machine of both loops.                             *)
(***************************************************************************)
\* q >= pct / 100, for a ratio q = [n, d] with d > 0.
GeFrac(q, pct) == q.n * 100 >= pct * q.d

\* A state machine that flips without waiting for the dwell.
HysteresisNoDwell(state, lastFlip, q, nowi, c) ==
    LET want_present == IF state THEN GeFrac(q, c.exit_frac) ELSE GeFrac(q, c.enter_frac)
        flip == want_present # state
    IN  [present |-> IF flip THEN want_present ELSE state,
         last_flip |-> IF flip THEN nowi ELSE lastFlip,
         flipped |-> flip, blocked |-> FALSE]

\* A state machine with a single threshold, enter_frac, in both states.
HysteresisOneThreshold(state, lastFlip, q, nowi, c) ==
    LET want_present == GeFrac(q, c.enter_frac)
        flip == want_present # state /\ nowi - lastFlip >= c.min_dwell_ms
    IN  [present |-> IF flip THEN want_present ELSE state,
         last_flip |-> IF flip THEN nowi ELSE lastFlip,
         flipped |-> flip, blocked |-> want_present # state /\ ~flip]

\* want_present from the state and the compared quantity q; flip when it
\* differs from the state and min_dwell_ms has passed since last_flip.
Hysteresis(state, lastFlip, q, nowi, c) ==
    LET want_present == IF state THEN GeFrac(q, c.exit_frac) ELSE GeFrac(q, c.enter_frac)
        flip == want_present # state /\ nowi - lastFlip >= c.min_dwell_ms
    IN  [present |-> IF flip THEN want_present ELSE state,
         last_flip |-> IF flip THEN nowi ELSE lastFlip,
         flipped |-> flip, blocked |-> want_present # state /\ ~flip]

\* The history of changes of smooth_present, after a flip at time at.
Flipped(at) == [some |-> TRUE, at |-> at, by |-> "flip", dropSince |-> FALSE]

\* Pacing that keeps the absolute deadline after an overrun.
PaceNoReset(deadline, t) ==
    IF deadline > t THEN [now |-> deadline, next |-> deadline, slept |-> TRUE]
    ELSE [now |-> t, next |-> deadline, slept |-> FALSE]

\* Pacing at the end of an iteration, the clock reading t: sleep until the
\* deadline when it is ahead, else reset the deadline to the clock.
Pace(deadline, t) ==
    IF deadline > t THEN [now |-> deadline, next |-> deadline, slept |-> TRUE]
    ELSE [now |-> t, next |-> t, slept |-> FALSE]

\* The time an iteration can take before it reads the clock again (ms).
WorkMs == {0, 1000}

\* What estimate_from_ref can return: None or Some((distance, strength)).
EstOut == {NoneVote, SomeVote(5, 90), SomeVote(12, 5)}

(***************************************************************************)
(* The gated loop (run_gated).                                             *)
(***************************************************************************)
\* parse_scansong's result: the stored songs in URL order, segments sorted
\* by start, with the offset of each fingerprint.
ScanFile(path) ==
    IF path = "LateScan.csv"
    THEN << [url |-> "c", segs |-> << [a |-> 1000, b |-> 3000] >>, offset_s |-> 80000] >>
    ELSE << [url |-> "a", segs |-> << [a |-> 2000, b |-> 5500] >>, offset_s |-> 1000],
            [url |-> "b", segs |-> << [a |-> 1000, b |-> 3000], [a |-> 19000, b |-> 22000] >>,
             offset_s |-> 0] >>

songs == ScanFile(cfg.scansong_path)

Song(url) == CHOOSE s \in {songs[i] : i \in 1..Len(songs)} : s.url = url

\* The similarities fp_similarity can return (percent).
SimVals == {0, 55, 90}

\* The scan over the stored songs: best = (url, top) and second.
RECURSIVE Match(_, _, _)
Match(sims, i, acc) ==
    IF i > Len(songs) THEN acc
    ELSE IF sims[i] > acc.top
         THEN Match(sims, i + 1, [url |-> songs[i].url, top |-> sims[i], second |-> acc.top])
         ELSE IF sims[i] > acc.second
              THEN Match(sims, i + 1, [acc EXCEPT !.second = sims[i]])
              ELSE Match(sims, i + 1, acc)

BestMatch(sims) == Match(sims, 1, [url |-> "", top |-> 0, second |-> 0])

\* An acceptance test without the margin.
AcceptNoMargin(m, c) == m.url # "" /\ m.top >= c.fp_thr

\* !best.0.is_empty() && top >= cli.fp_thr && margin >= cli.fp_margin
Accept(m, c) == m.url # "" /\ m.top >= c.fp_thr /\ m.top - m.second >= c.fp_margin

\* An inside test that widens every segment by twice the guard.
InsideWide(t_song, segs, c) ==
    \E i \in 1..Len(segs) :
        t_song >= segs[i].a - 2 * c.guard_s /\ t_song <= segs[i].b + 2 * c.guard_s

\* The loop over song.segs that sets inside.
Inside(t_song, segs, c) ==
    \E i \in 1..Len(segs) : t_song >= segs[i].a - c.guard_s /\ t_song <= segs[i].b + c.guard_s

\* A Step 1 that is taken on every tick.
ArmingAlways(al) == TRUE

\* if aligned.is_none(): the iteration is an Arming one.
Arming(al) == ~al.some

\* A drop test that waits twice as long.
DropDueLate(t_song, segs) == t_song > segs[Len(segs)].b + 2 * DropAfterMs

\* if let Some(&(_, last_b)) = song.segs.last() { if t_song > last_b + 60.0
DropDue(t_song, segs) == Len(segs) > 0 /\ t_song > segs[Len(segs)].b + DropAfterMs

\* present_instant: the estimate qualifies as a vote.
PresentInstant(e, c) == e.d <= c.dist_max_m /\ e.s >= c.strength_thr

\* The row written to Detection.csv on a flip.
GatedRow(present, out) ==
    [present |-> present, avg_d |-> out.avg_d, avg_s |-> out.avg_s, agree |-> out.agree]

(***************************************************************************)
(* estimate_from_ref (main.rs), called alone.  Lags are in samples,        *)
(* correlations in hundredths, distances in decimetres.  The correlation  *)
(* array of a pair of frames is given by its shape: a direct-path peak, an *)
(* echo peak and a floor.  A frame with a NaN or infinite sample makes     *)
(* every correlation NaN, and every comparison with it false.              *)
(***************************************************************************)
\* if n < 1024 { return None; }
MinFrame == 1024

\* MAX_PIPELINE_DELAY_MS
MaxPipelineDelayMs == 200

\* c = 343.0 m/s, in decimetres per second.
SoundDmPerS == 3430

\* let neigh = 6usize;
Neigh == 6

\* best0 and best1 start at -1.0.
WorstCorr == 0 - 100

\* (n / d).round() as usize for d > 0: a negative value saturates to 0.
RoundUsize(n, d) == IF n <= 0 THEN 0 ELSE (2 * n + d) \div (2 * d)

\* (((2.0 * m) / c) * sr).round() as usize
EchoLag(m, sr) == RoundUsize(2 * m * sr, SoundDmPerS)

\* rs[k], k in 0..kmax, for frames of shape x.
Corr(x, kmax) ==
    [k \in 0..kmax |-> IF k = x.kd THEN x.hd ELSE IF k = x.ke THEN x.he ELSE x.floor]

\* for k in lo..=hi { if rs[k] > best.1 { best = (k, rs[k]); } } from
\* best = (k_init, -1.0): the first index of the greatest value above -1.0.
ScanBest(rs, lo, hi, k_init) ==
    LET vals == {rs[k] : k \in lo..hi} \cup {WorstCorr}
        m == CHOOSE v \in vals : \A u \in vals : v >= u
    IN  IF m = WorstCorr THEN [k |-> k_init, r |-> WorstCorr]
        ELSE [k |-> CHOOSE k \in lo..hi : rs[k] = m /\ \A j \in lo..(k - 1) : rs[j] # m,
              r |-> m]

\* The second-best value outside the neighbourhood of k1, floored at 0.
SecondBest(rs, lo, hi, k1) ==
    LET vals == {rs[i] : i \in {j \in lo..hi : j + Neigh < k1 \/ Max(j - Neigh, 0) > k1}}
                \cup {WorstCorr}
        m == CHOOSE v \in vals : \A u \in vals : v >= u
    IN  IF m < 0 THEN 0 ELSE m

\* band[i] of rs[lo..=hi] sorted ascending.
BandAt(rs, lo, hi, i) ==
    CHOOSE v \in {rs[k] : k \in lo..hi} :
        /\ Cardinality({k \in lo..hi : rs[k] < v}) <= i
        /\ i < Cardinality({k \in lo..hi : rs[k] <= v})

\* idx(p) = ((len * p).floor() as usize).clamp(0, len - 1), p in percent.
BandIdx(len, pct) == Min(Max((len * pct) \div 100, 0), len - 1)

\* ((best1 - second).max(0.0) / (p95 - p75)).clamp(0.0, 1.0), halved when
\* best1 < p75; p95 is at least p75 + 1e-6, so a zero spread gives 0 or 1.
Prominence(best1, second, p75, band95) ==
    LET num == Max(best1 - second, 0)
        den == IF band95 > p75 THEN band95 - p75 ELSE 1
        n == IF band95 > p75 THEN Min(num, den) ELSE (IF num > 0 THEN 1 ELSE 0)
    IN  IF best1 < p75 THEN [n |-> n, d |-> 2 * den] ELSE [n |-> n, d |-> den]

NoEstimate ==
    [kind |-> "none", d |-> [n |-> 0, d |-> 1], s |-> [n |-> 0, d |-> 1],
     k0 |-> 0, k1 |-> 0, lo |-> 0, hi |-> 0, kmax |-> 0, i75 |-> 0, i95 |-> 0]

\* A distance that is returned without the cap.
DistOutUncapped(dist, dist_max_m) == dist

\* dist_m.min(config.dist_max_m), dist a ratio of integers.
DistOut(dist, dist_max_m) ==
    IF dist.n <= dist_max_m * dist.d THEN dist ELSE [n |-> dist_max_m, d |-> 1]

\* start = k0.saturating_add(min_echo); end = (k0 + max_echo).min(kmax)
EchoBand(k0, min_echo, max_echo, kmax) ==
    [lo |-> k0 + min_echo, hi |-> Min(k0 + max_echo, kmax)]

\* estimate_from_ref(x_ref, x_mic, sr, config): x gives the frames' lengths,
\* whether every sample is finite, whether both RMS levels are under their
\* gates, and the shape of the correlation.
EstimateFromRef(x, c) ==
    LET n == Min(x.len_ref, x.len_mic)
        min_echo == EchoLag(c.front_min_m, x.sr)
        max_echo == EchoLag(c.front_max_m, x.sr)
        base_max == RoundUsize(MaxPipelineDelayMs * x.sr, 1000)
        kmax == Min(base_max + max_echo, n - 1)
        rs == Corr(x, kmax)
        k0 == IF x.finite THEN ScanBest(rs, 0, kmax, 0).k ELSE 0
        band == EchoBand(k0, min_echo, max_echo, kmax)
        best1 == ScanBest(rs, band.lo, band.hi, band.lo)
        second == SecondBest(rs, band.lo, band.hi, best1.k)
        len == band.hi - band.lo + 1
        i75 == BandIdx(len, 75)
        i95 == BandIdx(len, 95)
        p75 == BandAt(rs, band.lo, band.hi, i75)
        used == [NoEstimate EXCEPT !.k0 = k0, !.lo = band.lo, !.hi = band.hi,
                                   !.kmax = kmax, !.i75 = i75, !.i95 = i95]
    IN  IF n < MinFrame THEN NoEstimate
        ELSE IF x.finite /\ x.quiet THEN NoEstimate
        ELSE IF max_echo <= min_echo \/ max_echo >= n THEN NoEstimate
        ELSE IF band.lo >= band.hi THEN [NoEstimate EXCEPT !.k0 = k0, !.kmax = kmax]
        ELSE IF ~x.finite THEN [used EXCEPT !.kind = "panic"]
        ELSE [used EXCEPT
                 !.kind = "some",
                 !.k1 = best1.k,
                 !.d = DistOut([n |-> (best1.k - k0) * SoundDmPerS, d |-> 2 * x.sr],
                               c.dist_max_m),
                 !.s = Prominence(best1.r, second, p75, BandAt(rs, band.lo, band.hi, i95))]

(***************************************************************************)
(* prescan::fp_similarity (main.rs), called alone.  Times, hops and lags   *)
(* are in milliseconds; a similarity is a ratio [n, d] of integers.        *)
(***************************************************************************)
\* let lag_max = 0.5_f32;
LagMaxMs == 500

\* (n / d).round() as isize for d > 0: halves round away from zero.
RoundDiv(n, d) ==
    IF n >= 0 THEN (2 * n + d) \div (2 * d) ELSE 0 - ((2 * (0 - n) + d) \div (2 * d))

\* A lag grid without the lags between -lag_max and +lag_max.
LagsEndsOnly(step) == {0 - LagMaxMs, LagMaxMs}

\* A lag grid that starts at 0.
LagsForward(step) == {j * step : j \in 0..(LagMaxMs \div step)}

\* lag = -lag_max; while lag <= lag_max + 1e-6 { .. lag += step; }
Lags(step) == {j * step - LagMaxMs : j \in 0..((2 * LagMaxMs) \div step)}

\* t = 0.0; while t <= t_common + 1e-6 { .. t += step; }
Times(step, t_common) == {j * step : j \in 0..(t_common \div step)}

\* hits and total of one lag: the times whose two indices are in range.
LagScore(a, b, step, t_common, lag) ==
    LET ia(tt) == RoundDiv(tt, a.hop_s)
        ib(tt) == RoundDiv(tt + lag, b.hop_s)
        both == {tt \in Times(step, t_common) :
                    /\ ia(tt) >= 0
                    /\ ib(tt) >= 0
                    /\ ia(tt) < Len(a.bins)
                    /\ ib(tt) < Len(b.bins)}
    IN  [n |-> Cardinality({tt \in both : a.bins[ia(tt) + 1] = b.bins[ib(tt) + 1]}),
         d |-> Cardinality(both)]

\* fp_similarity(a, b): the best hits / total over the lag grid, 0.0 when
\* no lag has a total above 0.
FpSimilarity(a, b) ==
    IF a.fp_type # b.fp_type \/ a.bands # b.bands THEN [n |-> 0, d |-> 1]
    ELSE IF Len(a.bins) = 0 \/ Len(b.bins) = 0 THEN [n |-> 0, d |-> 1]
    ELSE LET step == Min(a.hop_s, b.hop_s)
             t_common == Min((Len(a.bins) - 1) * a.hop_s, (Len(b.bins) - 1) * b.hop_s)
         IN  IF t_common <= 0 THEN [n |-> 0, d |-> 1]
             ELSE LET scores == {LagScore(a, b, step, t_common, lag) : lag \in Lags(step)}
                      rated == {s \in scores : s.d > 0 /\ s.n > 0}
                  IN  IF rated = {} THEN [n |-> 0, d |-> 1]
                      ELSE CHOOSE s \in rated :
                              /\ \A u \in rated : s.n * u.d >= u.n * s.d
                              /\ \A u \in rated : (s.n * u.d = u.n * s.d) => s.d <= u.d

(***************************************************************************)
(* to_hex (scan.rs) and from_hex (gated.rs), called alone.  A string is a  *)
(* sequence of one-character strings, a byte an integer in 0..255.         *)
(***************************************************************************)
\* The digits format!("{:02x}") writes, by value.
LowerDigits ==
    <<"0", "1", "2", "3", "4", "5", "6", "7", "8", "9", "a", "b", "c", "d", "e", "f">>

UpperDigits ==
    <<"0", "1", "2", "3", "4", "5", "6", "7", "8", "9", "A", "B", "C", "D", "E", "F">>

\* A byte written in upper-case hex.
HexOfByteUpper(b) == <<UpperDigits[(b \div 16) + 1], UpperDigits[(b % 16) + 1]>>

\* format!("{:02x}", b)
HexOfByte(b) == <<LowerDigits[(b \div 16) + 1], LowerDigits[(b % 16) + 1]>>

\* to_hex(bytes)
RECURSIVE to_hex(_)
to_hex(bytes) ==
    IF bytes = <<>> THEN <<>> ELSE HexOfByte(Head(bytes)) \o to_hex(Tail(bytes))

\* (ch as char).to_digit(16): 0-9, a-f and A-F have a value.
ToDigit(ch) ==
    IF \E i \in 1..16 : LowerDigits[i] = ch
    THEN [some |-> TRUE, v |-> (CHOOSE i \in 1..16 : LowerDigits[i] = ch) - 1]
    ELSE IF \E i \in 1..16 : UpperDigits[i] = ch
         THEN [some |-> TRUE, v |-> (CHOOSE i \in 1..16 : UpperDigits[i] = ch) - 1]
         ELSE [some |-> FALSE, v |-> 0]

\* The loop of from_hex over the pairs of s from position i on.
RECURSIVE FromHexFrom(_, _, _)
FromHexFrom(s, i, out) ==
    IF i > Len(s) THEN [some |-> TRUE, bytes |-> out]
    ELSE LET hi == ToDigit(s[i])
             lo == ToDigit(s[i + 1])
         IN  IF ~hi.some \/ ~lo.some THEN [some |-> FALSE, bytes |-> <<>>]
             ELSE FromHexFrom(s, i + 2, Append(out, (hi.v * 16 + lo.v) % 256))

\* from_hex(s)
from_hex(s) ==
    IF Len(s) % 2 # 0 THEN [some |-> FALSE, bytes |-> <<>>] ELSE FromHexFrom(s, 1, <<>>)

(***************************************************************************)
(* parse_scansong (gated.rs).  A line is the sequence of its cells after   *)
(* split(','); an f32 is [nan, v] with v in thousandths.                   *)
(***************************************************************************)
\* s.trim() on the cells used here.
Trim(s) == IF s = " u" THEN "u" ELSE IF s = " " THEN "" ELSE s

\* str::parse::<f32>().unwrap_or(0.0): "NaN" parses to a NaN, text to 0.
ParseF32(s) ==
    CASE s = "1" -> [nan |-> FALSE, v |-> 1000]
      [] s = "5" -> [nan |-> FALSE, v |-> 5000]
      [] s = "9" -> [nan |-> FALSE, v |-> 9000]
      [] s = "0.25" -> [nan |-> FALSE, v |-> 250]
      [] s = "NaN" -> [nan |-> TRUE, v |-> 0]
      [] OTHER -> [nan |-> FALSE, v |-> 0]

\* str::parse::<usize>().unwrap_or(0)
ParseUsize(s) ==
    CASE s = "8" -> 8
      [] s = "16" -> 16
      [] OTHER -> 0

\* The characters of a fp_bins_hex cell, as from_hex reads them.
Chars(s) ==
    CASE s = "0a" -> <<"0", "a">>
      [] s = "0aff" -> <<"0", "a", "f", "f">>
      [] s = "0g" -> <<"0", "g">>
      [] s = "0" -> <<"0">>
      [] OTHER -> <<>>

\* idx(name): the position of the first header cell equal to name, 0 if none.
Idx(cols, name) ==
    IF \E i \in 1..Len(cols) : Trim(cols[i]) = name
    THEN CHOOSE i \in 1..Len(cols) :
            /\ Trim(cols[i]) = name
            /\ \A j \in 1..(i - 1) : Trim(cols[j]) # name
    ELSE 0

\* The eight column positions parse_scansong looks up.
ColumnIndex(cols) ==
    [url |-> Idx(cols, "url"), start |-> Idx(cols, "start_s"), end |-> Idx(cols, "end_s"),
     fp_type |-> Idx(cols, "fp_type"), fp_bands |-> Idx(cols, "fp_bands"),
     fp_hop |-> Idx(cols, "fp_hop_s"), fp_off |-> Idx(cols, "fp_offset_s"),
     fp_bins |-> Idx(cols, "fp_bins_hex")]

NoFingerprint ==
    [some |-> FALSE, fp_type |-> "", bands |-> 0, hop_s |-> 0, offset_s |-> 0, bins |-> <<>>]

\* The fingerprint cells of one row: parts[i] is indexed without a length
\* test for all but the bins cell, which is read with get().
RowFingerprint(parts, ix) ==
    IF \E i \in {ix.fp_type, ix.fp_bands, ix.fp_hop, ix.fp_off} : i > Len(parts)
    THEN [kind |-> "panic", fp |-> NoFingerprint]
    ELSE LET fp_type == Trim(parts[ix.fp_type])
             bands == ParseUsize(Trim(parts[ix.fp_bands]))
             hop_s == ParseF32(Trim(parts[ix.fp_hop]))
             offset_s == ParseF32(Trim(parts[ix.fp_off]))
             bins_hex == IF ix.fp_bins <= Len(parts) THEN Trim(parts[ix.fp_bins]) ELSE ""
             bins == from_hex(Chars(bins_hex))
         IN  [kind |-> "ok",
              fp |-> IF /\ fp_type # ""
                        /\ bands > 0
                        /\ ~hop_s.nan
                        /\ hop_s.v > 0
                        /\ bins_hex # ""
                        /\ bins.some
                     THEN [some |-> TRUE, fp_type |-> fp_type, bands |-> bands,
                           hop_s |-> hop_s.v, offset_s |-> offset_s.v, bins |-> bins.bytes]
                     ELSE NoFingerprint]

\* The loop over the data lines; by_url is the BTreeMap.
RECURSIVE ScanLines(_, _, _)
ScanLines(lines, ix, by_url) ==
    IF lines = <<>> THEN [kind |-> "ok", by_url |-> by_url]
    ELSE LET parts == Head(lines)
             rest == Tail(lines)
         IN  IF Len(parts) = 1 /\ Trim(parts[1]) = "" THEN ScanLines(rest, ix, by_url)
             ELSE IF Len(parts) < ix.end THEN ScanLines(rest, ix, by_url)
             ELSE IF Trim(parts[ix.url]) = "" THEN ScanLines(rest, ix, by_url)
             ELSE LET url == Trim(parts[ix.url])
                      seg == [a |-> ParseF32(Trim(parts[ix.start])),
                              b |-> ParseF32(Trim(parts[ix.end]))]
                      old == IF url \in DOMAIN by_url THEN by_url[url]
                             ELSE [fp |-> NoFingerprint, segs |-> <<>>]
                      row == IF old.fp.some THEN [kind |-> "ok", fp |-> old.fp]
                             ELSE RowFingerprint(parts, ix)
                      new == [fp |-> row.fp, segs |-> Append(old.segs, seg)]
                  IN  IF row.kind = "panic" THEN [kind |-> "panic", by_url |-> by_url]
                      ELSE ScanLines(rest, ix,
                               [u \in DOMAIN by_url \cup {url} |->
                                   IF u = url THEN new ELSE by_url[u]])

\* One step of the stable sort: x goes after every element not above it.
RECURSIVE InsertSeg(_, _)
InsertSeg(sorted, x) ==
    IF sorted = <<>> THEN <<x>>
    ELSE IF x.a.v < Head(sorted).a.v THEN <<x>> \o sorted
         ELSE <<Head(sorted)>> \o InsertSeg(Tail(sorted), x)

RECURSIVE SortFrom(_, _)
SortFrom(segs, sorted) ==
    IF segs = <<>> THEN sorted ELSE SortFrom(Tail(segs), InsertSeg(sorted, Head(segs)))

\* segs.sort_by(|a, b| a.0.partial_cmp(&b.0).unwrap()): a comparison with
\* a NaN start has no ordering and the unwrap panics.
SortSegs(segs) ==
    IF Len(segs) >= 2 /\ \E i \in 1..Len(segs) : segs[i].a.nan
    THEN [kind |-> "panic", segs |-> <<>>]
    ELSE [kind |-> "ok", segs |-> SortFrom(segs, <<>>)]

\* The keys of the BTreeMap in its iteration order.
UrlOrder == <<"u", "v">>

\* The closing loop: one SongWindows per key that has a fingerprint.
RECURSIVE Collect(_, _, _)
Collect(by_url, i, out) ==
    IF i > Len(UrlOrder) THEN [kind |-> "ok", songs |-> out]
    ELSE LET url == UrlOrder[i]
         IN  IF url \notin DOMAIN by_url \/ ~by_url[url].fp.some
             THEN Collect(by_url, i + 1, out)
             ELSE LET s == SortSegs(by_url[url].segs)
                  IN  IF s.kind = "panic" THEN [kind |-> "panic", songs |-> <<>>]
                      ELSE Collect(by_url, i + 1,
                               Append(out, [url |-> url, segs |-> s.segs,
                                            fp |-> by_url[url].fp]))

\* parse_scansong on a header line and the data lines after it.
parse_scansong(header, lines) ==
    LET ix == ColumnIndex(header)
    IN  IF \E k \in DOMAIN ix : ix[k] = 0 THEN [kind |-> "err", songs |-> <<>>]
        ELSE LET scanned == ScanLines(lines, ix, << >>)
             IN  IF scanned.kind = "panic" THEN [kind |-> "panic", songs |-> <<>>]
                 ELSE Collect(scanned.by_url, 1, <<>>)

(***************************************************************************)
(* The state after construction.                                           *)
(***************************************************************************)
\* The locals of an iteration that has not run.
NoneAligned == [some |-> FALSE, url |-> "", t0 |-> 0]
NoLoc ==
    [kind |-> "none", t_song |-> 0, inside |-> FALSE, ran_est |-> FALSE,
     est |-> NoneVote, vote |-> NoneVote, pushed |-> FALSE, out |-> NoneAgg,
     quantity |-> [n |-> 0, d |-> 1], fed |-> FALSE, nowi |-> 0, flipped |-> FALSE,
     dropped |-> FALSE, matched |-> FALSE, sims |-> <<>>, top |-> 0, second |-> 0,
     best |-> "", accepted |-> FALSE, slept |-> FALSE, url |-> "", blocked |-> FALSE]

InitPipeline ==
    /\ chan = [s \in Src |-> <<>>]
    /\ closed = [s \in Src |-> FALSE]
    /\ sent = [s \in Src |-> 0]
    /\ ring = [s \in Src |-> <<>>]
    /\ sinkPc = [s \in Src |-> "recv"]
    /\ sinkBlock = [s \in Src |-> <<>>]
    /\ bufLock = [s \in Src |-> "free"]
    /\ srLock = [s \in Src |-> "free"]
    /\ schedPc = "idle"
    /\ snap = [src |-> "idle", data |-> <<>>]

\* run_presence / run_gated up to the first evaluation of the loop condition.
InitLoop ==
    /\ pc = "run"
    /\ quit = FALSE
    /\ now = 0
    /\ next = 0
    /\ ticks = 0
    /\ analyzer = <<>>
    /\ smooth_present = FALSE
    /\ last_flip = 0 - cfg.min_dwell_ms
    /\ aligned = NoneAligned
    /\ csv = <<>>
    /\ loc = NoLoc
    /\ lastChange = [some |-> FALSE, at |-> 0, by |-> "none", dropSince |-> FALSE]

InitAgg ==
    /\ agg = <<>>
    /\ pushed = <<>>
    /\ ret = NoneAgg

\* No function is being called alone.
NoCall == [fn |-> "none", in |-> <<>>, out |-> <<>>, done |-> FALSE]

InitCall == call = NoCall

Init ==
    /\ \E r \in Runs : mode = r[1] /\ cfg = r[2]
    /\ ioFaults = FALSE
    /\ InitPipeline
    /\ InitLoop
    /\ InitAgg
    /\ InitCall

\* The pipeline is the same under every Config but for the loopback chunk
\* length, which depends on the mode and on tick_ms.
InitRing ==
    /\ \E r \in {<<"gated", GatedFine>>, <<"presence", PresenceCfg>>} : mode = r[1] /\ cfg = r[2]
    /\ ioFaults = FALSE
    /\ InitPipeline
    /\ InitLoop
    /\ InitAgg
    /\ InitCall

(***************************************************************************)
(* The loops' iterations.  One action is one whole iteration: the loop     *)
(* condition, next += tick_ms, the body, and the pacing at its end.        *)
(***************************************************************************)
\* How the writes of an iteration end: log names the logger call that fails
\* (0: none), csv whether the row reaches Detection.csv.
IoOutcomes ==
    IF ioFaults THEN [log : {0, 1, 2}, csv : BOOLEAN] ELSE {[log |-> 0, csv |-> TRUE]}

ZeroSims == [i \in 1..Len(songs) |-> 0]

\* A loop that never reads the flag.
KeepRunningAlways(q) == TRUE

\* while !quit.load(Ordering::SeqCst): the one read of the flag, at the
\* head of an iteration.
KeepRunning(q) == ~q

\* The Ctrl+C handler: q.store(true).
SetQuit ==
    /\ pc = "run"
    /\ ~quit
    /\ quit' = TRUE
    /\ UNCHANGED <<mode, pc, now, next, ticks, analyzer, smooth_present, last_flip,
                   aligned, csv, loc, lastChange, ioFaults>>
    /\ UNCHANGED <<ringVars, aggVars, cfg, call>>

\* while !quit.load(): the loop ends; the closing logger.info(..)? decides
\* between Ok(()) and Err.
LoopExit ==
    /\ pc = "run"
    /\ ~KeepRunning(quit)
    /\ \E io \in IoOutcomes : pc' = IF io.log = 0 THEN "stopped" ELSE "failed"
    /\ UNCHANGED <<mode, quit, now, next, ticks, analyzer, smooth_present, last_flip,
                   aligned, csv, loc, lastChange, ioFaults>>
    /\ UNCHANGED <<ringVars, aggVars, cfg, call>>

\* run_gated, Step 1 (not aligned): armed says that the loopback is loud and
\* long enough and make_fingerprint returned a fingerprint; sims are its
\* similarities to the stored songs.
GatedArm ==
    /\ mode = "gated"
    /\ pc = "run"
    /\ KeepRunning(quit)
    /\ ticks < MaxTicks
    /\ Arming(aligned)
    /\ \E w \in WorkMs, armed \in BOOLEAN, io \in IoOutcomes :
       \E sims \in (IF armed THEN [1..Len(songs) -> SimVals] ELSE {ZeroSims}) :
          LET t == now + w
              m == BestMatch(sims)
              accept == armed /\ Accept(m, cfg)
              failed == armed /\ io.log # 0
              set == accept /\ io.log # 1
              p == Pace(next + cfg.tick_ms, t)
          IN  /\ aligned' = IF set
                            THEN [some |-> TRUE, url |-> m.url, t0 |-> t - Song(m.url).offset_s]
                            ELSE aligned
              /\ pc' = IF failed THEN "failed" ELSE "run"
              /\ now' = IF failed THEN t ELSE p.now
              /\ next' = IF failed THEN next + cfg.tick_ms ELSE p.next
              /\ loc' = [NoLoc EXCEPT !.kind = "arming", !.matched = armed, !.sims = sims,
                                      !.top = m.top, !.second = m.second, !.best = m.url,
                                      !.accepted = set, !.nowi = t,
                                      !.slept = ~failed /\ p.slept]
    /\ ticks' = ticks + 1
    /\ quit' \in BOOLEAN
    /\ UNCHANGED <<mode, analyzer, smooth_present, last_flip, csv, lastChange, ioFaults>>
    /\ UNCHANGED <<ringVars, aggVars, cfg, call>>

\* run_gated, Step 2, inside a window: what the iteration leaves behind.
\* snapOk: both frames have analysis_len samples; est: the estimator's answer.
GatedInside(t_song, w, snapOk, est, io) ==
    LET nowi == now + w
        ran == snapOk
        vote == IF ran /\ est.some /\ PresentInstant(est, cfg) THEN est ELSE NoneVote
        r == AggPush(agg, AggCap(cfg), cfg.agg_frac, vote)
        fed == ran /\ est.some /\ r.out.some
        h == IF fed THEN Hysteresis(smooth_present, last_flip, r.out.agree, nowi, cfg)
             ELSE [present |-> smooth_present, last_flip |-> last_flip, flipped |-> FALSE,
                   blocked |-> FALSE]
        failed == h.flipped /\ io.log # 0
    IN  [agg |-> r.history,
         smooth_present |-> h.present,
         last_flip |-> h.last_flip,
         aligned |-> aligned,
         csv |-> IF h.flipped /\ ~failed /\ io.csv
                 THEN Append(csv, GatedRow(h.present, r.out)) ELSE csv,
         lastChange |-> IF h.flipped THEN Flipped(nowi) ELSE lastChange,
         failed |-> failed,
         t |-> nowi,
         loc |-> [NoLoc EXCEPT !.kind = "running", !.t_song = t_song, !.inside = TRUE,
                               !.ran_est = ran, !.est = IF ran THEN est ELSE NoneVote,
                               !.vote = vote, !.pushed = TRUE, !.out = r.out,
                               !.quantity = IF fed THEN r.out.agree ELSE NoLoc.quantity,
                               !.fed = fed, !.nowi = nowi, !.flipped = h.flipped,
                               !.blocked = h.blocked, !.url = aligned.url]]

\* A drop that leaves the smoothed state as it is.
AfterDropKeeps(present) == present

\* The drop of the alignment: smooth_present = false.
AfterDrop(present) == FALSE

\* run_gated, Step 2, outside every window: push None, and drop the
\* alignment once the song clock is 60 s past the last segment's end.
GatedOutside(t_song, w, io) ==
    LET t == now + w
        song == Song(aligned.url)
        r == AggPush(agg, AggCap(cfg), cfg.agg_frac, NoneVote)
        past == DropDue(t_song, song.segs)
        failed == past /\ io.log # 0
        drop == past /\ ~failed
    IN  [agg |-> r.history,
         smooth_present |-> IF drop THEN AfterDrop(smooth_present) ELSE smooth_present,
         last_flip |-> IF drop THEN t - cfg.min_dwell_ms ELSE last_flip,
         aligned |-> IF drop THEN NoneAligned ELSE aligned,
         csv |-> csv,
         lastChange |-> IF drop
                        THEN (IF smooth_present
                              THEN [some |-> TRUE, at |-> t, by |-> "drop", dropSince |-> TRUE]
                              ELSE [lastChange EXCEPT !.dropSince = TRUE])
                        ELSE lastChange,
         failed |-> failed,
         t |-> t,
         loc |-> [NoLoc EXCEPT !.kind = "running", !.t_song = t_song, !.pushed = TRUE,
                               !.out = r.out, !.nowi = t, !.dropped = drop,
                               !.url = aligned.url]]

\* run_gated, Step 2 (aligned).
GatedRun ==
    /\ mode = "gated"
    /\ pc = "run"
    /\ KeepRunning(quit)
    /\ ticks < MaxTicks
    /\ ~Arming(aligned)
    /\ LET t_song == now - aligned.t0
           inside == Inside(t_song, Song(aligned.url).segs, cfg)
       IN  \E w \in WorkMs, io \in IoOutcomes, snapOk \in (IF inside THEN BOOLEAN ELSE {FALSE}) :
           \E est \in (IF snapOk THEN EstOut ELSE {NoneVote}) :
              LET o == IF inside THEN GatedInside(t_song, w, snapOk, est, io)
                       ELSE GatedOutside(t_song, w, io)
                  p == Pace(next + cfg.tick_ms, o.t)
              IN  /\ agg' = o.agg
                  /\ smooth_present' = o.smooth_present
                  /\ last_flip' = o.last_flip
                  /\ aligned' = o.aligned
                  /\ csv' = o.csv
                  /\ lastChange' = o.lastChange
                  /\ pc' = IF o.failed THEN "failed" ELSE "run"
                  /\ now' = IF o.failed THEN o.t ELSE p.now
                  /\ next' = IF o.failed THEN next + cfg.tick_ms ELSE p.next
                  /\ loc' = [o.loc EXCEPT !.slept = ~o.failed /\ p.slept]
    /\ ticks' = ticks + 1
    /\ quit' \in BOOLEAN
    /\ UNCHANGED <<mode, analyzer, ioFaults>>
    /\ UNCHANGED <<ringVars, pushed, ret, cfg, call>>

(***************************************************************************)
(* The presence loop (run_presence) and its MultiMeasurementAnalyzer.      *)
(* Strengths are in percent and distances in whole decimetres, so a 10 cm  *)
(* bin holds one distance and the spread of a cluster is 0.                *)
(***************************************************************************)
NoResult ==
    [some |-> FALSE, present |-> FALSE, confidence |-> [n |-> 0, d |-> 1],
     avg_d |-> [inf |-> FALSE, n |-> 0, d |-> 1], avg_s |-> [n |-> 0, d |-> 1],
     detection_count |-> 0, total_measurements |-> 0]

\* The measurements that pass the collection thresholds of analyze_multi_peak.
AllDetections(h, c) ==
    SelectSeq(h, LAMBDA m : /\ m.d >= c.front_min_m
                            /\ m.d <= c.front_max_m
                            /\ m.s * 2 >= c.strength_thr)

\* distance_clusters: the detections of one 10 cm bin.
Cluster(dets, bin) == SelectSeq(dets, LAMBDA m : m.d = bin)

Bins(dets) == {dets[i].d : i \in 1..Len(dets)}

\* score = avg_strength * sqrt(cluster_size), compared through its square:
\* ScoreGt(a, b) is score(a) > score(b).
ScoreGt(a, b) ==
    SumVotes(a).sum_s * SumVotes(a).sum_s * Len(b) > SumVotes(b).sum_s * SumVotes(b).sum_s * Len(a)

\* The bins the scan over the HashMap can end on: a score above 0 that no
\* other bin exceeds; the iteration order decides between equal scores.
BestBins(dets) ==
    {b \in Bins(dets) :
        /\ SumVotes(Cluster(dets, b)).sum_s > 0
        /\ \A o \in Bins(dets) : ~ScoreGt(Cluster(dets, o), Cluster(dets, b))}

\* The PresenceResult for the chosen cluster, total the history length.
\* confidence = clamp(0.4 * ratio + 0.4 * avg_strength + 0.2 * consistency).
ClusterResult(k, total, c) ==
    LET size == Len(k)
        sum == SumVotes(k)
        cn == 400 * size * size + 4 * sum.sum_s * total + 200 * total * size
        cd == 1000 * total * size
    IN  [some |-> TRUE,
         present |-> size * 200 >= c.agg_frac * total /\ sum.sum_s * 4 >= c.strength_thr * 3 * size,
         confidence |-> [n |-> Min(cn, cd), d |-> cd],
         avg_d |-> [inf |-> FALSE, n |-> sum.sum_d, d |-> size],
         avg_s |-> [n |-> sum.sum_s, d |-> size],
         detection_count |-> size,
         total_measurements |-> total]

\* analyze_multi_peak: the results it can return for a history h.
AnalyzeMultiPeak(h, c) ==
    LET dets == AllDetections(h, c)
    IN  IF Len(h) = 0 THEN {NoResult}
        ELSE IF Len(dets) = 0
             THEN {[NoResult EXCEPT !.some = TRUE, !.avg_d.inf = TRUE,
                                    !.total_measurements = Len(h)]}
             ELSE IF BestBins(dets) = {} THEN {NoResult}
                  ELSE {ClusterResult(Cluster(dets, b), Len(h), c) : b \in BestBins(dets)}

\* MultiMeasurementAnalyzer::push: only a Some measurement joins the history.
AnalyzerPush(h, cap, c, m) ==
    LET h1 == IF m.some THEN Append(h, m) ELSE h
        h2 == TrimFront(h1, cap)
    IN  [history |-> h2,
         outs |-> IF Len(h2) < Max(cap \div 2, 3) THEN {NoResult} ELSE AnalyzeMultiPeak(h2, c)]

\* The row written to Detection.csv on a flip.
PresenceRow(present, res) ==
    [present |-> present,
     avg_d |-> IF present THEN res.avg_d ELSE [res.avg_d EXCEPT !.inf = TRUE],
     avg_s |-> res.avg_s, confidence |-> res.confidence,
     detection_count |-> res.detection_count,
     total_measurements |-> res.total_measurements]

\* One iteration of run_presence.  snapOk: both frames have analysis_len
\* samples; est: the estimator's answer; res: the analyzer's result.
PresenceTick ==
    /\ mode = "presence"
    /\ pc = "run"
    /\ KeepRunning(quit)
    /\ ticks < MaxTicks
    /\ \E w \in WorkMs, io \in IoOutcomes, snapOk \in BOOLEAN :
       \E est \in (IF snapOk THEN EstOut ELSE {NoneVote}) :
          LET nowi == now + w
              a == AnalyzerPush(analyzer, AggCap(cfg), cfg, est)
              p == Pace(next + cfg.tick_ms, nowi)
          IN  \E res \in a.outs :
                 LET fed == est.some /\ res.some
                     h == IF fed
                          THEN Hysteresis(smooth_present, last_flip, res.confidence, nowi, cfg)
                          ELSE [present |-> smooth_present, last_flip |-> last_flip,
                                flipped |-> FALSE, blocked |-> FALSE]
                 IN  /\ analyzer' = a.history
                     /\ smooth_present' = h.present
                     /\ last_flip' = h.last_flip
                     /\ csv' = IF h.flipped /\ io.csv
                               THEN Append(csv, PresenceRow(h.present, res)) ELSE csv
                     /\ lastChange' = IF h.flipped THEN Flipped(nowi) ELSE lastChange
                     /\ now' = p.now
                     /\ next' = p.next
                     /\ loc' = [NoLoc EXCEPT !.kind = "presence", !.ran_est = snapOk,
                                             !.est = est, !.vote = est, !.pushed = TRUE,
                                             !.out = res,
                                             !.quantity = IF fed THEN res.confidence
                                                          ELSE NoLoc.quantity,
                                             !.fed = fed, !.nowi = nowi,
                                             !.flipped = h.flipped, !.blocked = h.blocked,
                                             !.slept = p.slept]
    /\ ticks' = ticks + 1
    /\ quit' \in BOOLEAN
    /\ UNCHANGED <<mode, pc, aligned, ioFaults>>
    /\ UNCHANGED <<ringVars, aggVars, cfg, call>>

(***************************************************************************)
(* SpecRing: the capturers, the sinks and the scheduler's snapshots.       *)
(***************************************************************************)
NextRing ==
    \/ \E s \in Src : CapSend(s)
    \/ \E s \in Src : CapClose(s)
    \/ \E s \in Src : SinkRecv(s)
    \/ \E s \in Src : SinkLock(s)
    \/ \E s \in Src : SinkExtend(s)
    \/ \E s \in Src : SinkTrim(s)
    \/ \E s \in Src : SinkUnlock(s)
    \/ \E s \in Src : SchedLockFrame(s)
    \/ \E s \in Src : SchedCopyFrame(s)
    \/ \E s \in Src : SchedUnlockFrame(s)
    \/ ArmLockBuf
    \/ ArmLockSr
    \/ ArmCopy
    \/ ArmUnlock

SpecRing == InitRing /\ [][NextRing]_vars

(***************************************************************************)
(* C1.  For each ring buffer, after every append of audio_sink_thread and  *)
(* in every state a scheduler snapshot can observe (the buf mutex is not   *)
(* held by the sink), the ring holds at most 10 x sample_rate samples;     *)
(* and no copy the scheduler took is longer than that.                     *)
(***************************************************************************)
C1_RingWithinCapacity ==
    /\ \A s \in Src :
          (bufLock[s] # "sink" \/ sinkPc[s] = "unlock") => Len(ring[s]) <= SampleRate * 10
    /\ Len(snap.data) <= SampleRate * 10

\* A sink has just trimmed a ring that the append had pushed over capacity.
C1_Witness ==
    \E s \in Src :
        /\ sinkPc[s] = "unlock"
        /\ Len(ring[s]) = SampleRate * 10
        /\ ring[s][1] > 1


(***************************************************************************)
(* SpecAgg: an Aggregator driven alone with every sequence of votes.       *)
(***************************************************************************)
InitAggSpec ==
    /\ mode = "gated"
    /\ \E w \in {1, 2}, tk \in {500, 1000, 3000} :
          cfg = [GatedFine EXCEPT !.window_sec = w, !.tick_ms = tk]
    /\ ioFaults = FALSE
    /\ InitPipeline
    /\ InitLoop
    /\ InitAgg
    /\ InitCall

\* agg.push(vote)
Push(vote) ==
    /\ Len(pushed) < MaxPushes
    /\ LET r == AggPush(agg, AggCap(cfg), cfg.agg_frac, vote)
       IN  /\ agg' = r.history
           /\ ret' = r.out
    /\ pushed' = Append(pushed, vote)
    /\ UNCHANGED <<ringVars, loopVars, cfg, call>>

NextAgg == \E v \in Votes : Push(v)

SpecAgg == InitAggSpec /\ [][NextAgg]_vars

(***************************************************************************)
(* C4.  With cap = window_cap(window_sec, tick_ms), push returns None on   *)
(* each of the first cap - 1 pushes and Some on the cap-th and every later *)
(* push, whatever the votes; the history never holds more than cap votes.  *)
(***************************************************************************)
C4_NoneUntilWindowFull ==
    LET cap == Max((1000 \div cfg.tick_ms) * cfg.window_sec, 1)
    IN  /\ Len(agg) <= cap
        /\ Len(pushed) >= 1 => (ret.some <=> Len(pushed) >= cap)

\* A window of more than one vote has been filled and pushed past.
C4_Witness ==
    /\ AggCap(cfg) = 4
    /\ Len(pushed) = 6
    /\ ret.some

(***************************************************************************)
(* C5.  For every aggregate push returns, agreement is (number of Some     *)
(* votes among the last cap votes) / cap, within [0, 1]; the mean distance *)
(* is +infinity exactly when all cap votes are None, and then the mean     *)
(* strength is 0; otherwise the means are over the Some votes.             *)
(***************************************************************************)
C5_AgreementAndMeans ==
    ret.some =>
        LET cap == Max((1000 \div cfg.tick_ms) * cfg.window_sec, 1)
            n == Len(pushed)
            window == {i \in 1..n : i > n - cap}
            some == {i \in window : pushed[i].some}
        IN  /\ ret.agree.d = cap
            /\ ret.agree.n = Cardinality(some)
            /\ 0 <= ret.agree.n /\ ret.agree.n <= ret.agree.d
            /\ ret.avg_d.inf <=> some = {}
            /\ ret.avg_d.inf => ret.avg_s.n = 0
            /\ ~ret.avg_d.inf => ret.avg_d.d = Cardinality(some) /\ ret.avg_s.d = Cardinality(some)

\* Both kinds of aggregate occur: a full window of None, and a mixed window.
C5_Witness ==
    /\ ret.some
    /\ ret.avg_d.inf
    /\ Len(pushed) > AggCap(cfg)
    /\ \E i \in 1..Len(pushed) : pushed[i].some


(***************************************************************************)
(* Spec: main dispatches on the mode and runs the loop.                    *)
(***************************************************************************)
Next ==
    \/ SetQuit
    \/ LoopExit
    \/ GatedArm
    \/ GatedRun
    \/ PresenceTick

Spec == Init /\ [][Next]_vars


(***************************************************************************)
(* Properties of the loops, checked under Spec.                            *)
(***************************************************************************)
\* C2 (as amended): between two consecutive flips of the hysteresis state
\* machine with no alignment drop between them (the presence loop never
\* drops), the elapsed wall time is at least min_dwell_ms.
C2_DwellBetweenFlips ==
    [][(/\ smooth_present' # smooth_present
        /\ loc'.flipped
        /\ lastChange.some
        /\ ~lastChange.dropSince)
       => lastChange'.at - lastChange.at >= cfg.min_dwell_ms]_vars

\* C2: a second flip, Present back to Absent, made by the state machine.
C2_Witness == loc.flipped /\ ~smooth_present /\ lastChange.some /\ ~lastChange.dropSince

\* C2 (as stated): every change of the smoothed state, the reset at an
\* alignment drop included, comes at least min_dwell_ms after the previous one.
C2_DwellBetweenAllChanges ==
    [][(smooth_present' # smooth_present /\ lastChange.some)
       => lastChange'.at - lastChange.at >= cfg.min_dwell_ms]_vars

\* C3 (as amended): on each result fed to the state machine, Absent becomes
\* Present only if q >= enter_frac, Present becomes Absent only if
\* q < exit_frac, and exit_frac <= q < enter_frac leaves the state alone,
\* where q is the window agreement in the gated loop and the analyzer's
\* confidence in the presence loop.
C3_TwoThresholds ==
    [][(ticks' # ticks /\ loc'.fed) =>
       LET q == IF mode = "gated" THEN loc'.out.agree ELSE loc'.out.confidence
       IN  /\ (~smooth_present /\ smooth_present') => q.n * 100 >= cfg.enter_frac * q.d
           /\ (smooth_present /\ ~smooth_present') => q.n * 100 < cfg.exit_frac * q.d
           /\ (q.n * 100 >= cfg.exit_frac * q.d /\ q.n * 100 < cfg.enter_frac * q.d)
              => smooth_present' = smooth_present]_vars

\* C3: a result between the two thresholds was fed while Present.
C3_Witness ==
    /\ loc.fed
    /\ smooth_present
    /\ loc.quantity.n * 100 >= cfg.exit_frac * loc.quantity.d
    /\ loc.quantity.n * 100 < cfg.enter_frac * loc.quantity.d

\* C3 (as stated): the same with q the agreement fraction of the window in
\* both loops (in the presence loop detection_count / total_measurements).
C3_AgreementInBothLoops ==
    [][(ticks' # ticks /\ loc'.fed) =>
       LET q == IF mode = "gated" THEN loc'.out.agree
                ELSE [n |-> loc'.out.detection_count, d |-> loc'.out.total_measurements]
       IN  /\ (~smooth_present /\ smooth_present') => q.n * 100 >= cfg.enter_frac * q.d
           /\ (smooth_present /\ ~smooth_present') => q.n * 100 < cfg.exit_frac * q.d
           /\ (q.n * 100 >= cfg.exit_frac * q.d /\ q.n * 100 < cfg.enter_frac * q.d)
              => smooth_present' = smooth_present]_vars

\* C6: on every tick whose push produced an aggregate, the state machine
\* was advanced with it.
C6_AggregateAdvancesStateMachine ==
    (loc.kind \in {"running", "presence"} /\ loc.pushed /\ loc.out.some) => loc.fed

\* C7: in the gated loop, once the window holds only None votes and
\* min_dwell_ms has passed since the last flip, the state is Absent.
C7_PresenceDecays ==
    (/\ mode = "gated"
     /\ loc.kind = "running"
     /\ Len(agg) = AggCap(cfg)
     /\ \A i \in 1..Len(agg) : ~agg[i].some
     /\ loc.nowi - last_flip >= cfg.min_dwell_ms)
    => ~smooth_present

\* C8: a record is appended to Detection.csv exactly when the smoothed state
\* changes, and its present field is the new state.
C8_RecordPerChange ==
    [][/\ (smooth_present' # smooth_present)
          => /\ Len(csv') = Len(csv) + 1
             /\ SubSeq(csv', 1, Len(csv)) = csv
             /\ csv'[Len(csv')].present = smooth_present'
       /\ (smooth_present' = smooth_present) => csv' = csv]_vars

\* C9: an aligned tick votes non-None only if its song clock lies in
\* [a - guard_s, b + guard_s] for some segment of the matched song; an
\* aligned tick outside all of them pushes None without running the estimator.
C9_VotesOnlyInsideWindows ==
    loc.kind = "running" =>
       LET segs == Song(loc.url).segs
           within == \E i \in 1..Len(segs) :
                        /\ segs[i].a - cfg.guard_s <= loc.t_song
                        /\ loc.t_song <= segs[i].b + cfg.guard_s
       IN  /\ loc.vote.some => within
           /\ ~within => (loc.pushed /\ ~loc.vote.some /\ ~loc.ran_est)

\* C9: a vote was pushed on a tick past a segment's end but within the guard.
C9_Witness ==
    /\ loc.kind = "running"
    /\ loc.vote.some
    /\ \A i \in 1..Len(Song(loc.url).segs) :
          loc.t_song > Song(loc.url).segs[i].b \/ loc.t_song < Song(loc.url).segs[i].a

\* C10 (as amended): for a live fingerprint scored against every song, the
\* alignment is accepted on that tick iff top > 0, top >= fp_thr and
\* top - second >= fp_margin (second the next-highest similarity, 0 when
\* there is none); the accepted song attains top.
C10_AcceptIff ==
    (loc.kind = "arming" /\ loc.matched) =>
       LET S == loc.sims
           top == CHOOSE x \in {S[i] : i \in DOMAIN S} : \A i \in DOMAIN S : x >= S[i]
           i0 == CHOOSE i \in DOMAIN S : S[i] = top
           rest == {S[i] : i \in DOMAIN S \ {i0}} \cup {0}
           second == CHOOSE x \in rest : \A y \in rest : x >= y
       IN  /\ loc.accepted <=> (top > 0 /\ top >= cfg.fp_thr /\ top - second >= cfg.fp_margin)
           /\ loc.accepted =>
                 /\ aligned.some
                 /\ \E i \in DOMAIN S : songs[i].url = aligned.url /\ S[i] = top

\* C10: an alignment was accepted over a runner-up with a similarity above 0.
C10_Witness == loc.kind = "arming" /\ loc.matched /\ loc.accepted /\ loc.second > 0

\* C10 (as stated): accepted iff top >= fp_thr and top - second >= fp_margin.
C10_AcceptIffThresholdsOnly ==
    (loc.kind = "arming" /\ loc.matched) =>
       LET S == loc.sims
           top == CHOOSE x \in {S[i] : i \in DOMAIN S} : \A i \in DOMAIN S : x >= S[i]
           i0 == CHOOSE i \in DOMAIN S : S[i] = top
           rest == {S[i] : i \in DOMAIN S \ {i0}} \cup {0}
           second == CHOOSE x \in rest : \A y \in rest : x >= y
       IN  loc.accepted <=> (top >= cfg.fp_thr /\ top - second >= cfg.fp_margin)


\* C11 (as amended): on an aligned tick outside every guarded window whose
\* song clock exceeds the last segment's end + 60 s, the alignment is
\* dropped and the state machine is reset to Absent with last_flip
\* min_dwell_ms before the clock; the tick after a drop is an Arming tick.
C11_DropAfterLastWindow ==
    [][ticks' # ticks =>
       /\ (/\ aligned.some
           /\ now - aligned.t0 > Song(aligned.url).segs[Len(Song(aligned.url).segs)].b + 60000
           /\ \A i \in 1..Len(Song(aligned.url).segs) :
                 \/ now - aligned.t0 < Song(aligned.url).segs[i].a - cfg.guard_s
                 \/ now - aligned.t0 > Song(aligned.url).segs[i].b + cfg.guard_s)
          => /\ ~aligned'.some
             /\ ~smooth_present'
             /\ last_flip' = loc'.nowi - cfg.min_dwell_ms
       /\ (mode = "gated" /\ ~aligned.some) => loc'.kind = "arming"]_vars

\* C11: an alignment was dropped while the state was Present, and the tick
\* after it was an Arming tick.
C11_Witness ==
    /\ loc.kind = "arming"
    /\ lastChange.some
    /\ lastChange.by = "drop"
    /\ ~smooth_present
    /\ last_flip = lastChange.at - cfg.min_dwell_ms

\* C11 (as stated): the same on any aligned tick whose song clock exceeds the
\* last segment's end + 60 s, inside a guarded window or not.
C11_DropOnAnyLateTick ==
    [][(/\ ticks' # ticks
        /\ aligned.some
        /\ now - aligned.t0 > Song(aligned.url).segs[Len(Song(aligned.url).segs)].b + 60000)
       => (~aligned'.some /\ ~smooth_present')]_vars


\* C12: while an alignment is held, no tick runs the fingerprint matching
\* and every step leaves the alignment's url and t0 unchanged, except the
\* tick that drops it.
C12_AlignedOncePerTrack ==
    [][aligned.some =>
       /\ ticks' # ticks => (loc'.kind = "running" /\ ~loc'.matched)
       /\ aligned' = aligned \/ (ticks' # ticks /\ loc'.dropped /\ ~aligned'.some)]_vars

\* C12: an alignment is still held three ticks after it was accepted.
C12_Witness ==
    /\ aligned.some
    /\ loc.kind = "running"
    /\ loc.t_song >= Song(aligned.url).offset_s + 3 * cfg.tick_ms - 1000


(***************************************************************************)
(* SpecEst: estimate_from_ref called once on each pair of frames.          *)
(***************************************************************************)
\* Configurations the estimator is called under: the defaults, a distance
\* cap below the echo band, a negative cap, an empty echo band, and an echo
\* band longer than the frames.
EstConfigs ==
    {GatedFine,
     [GatedFine EXCEPT !.dist_max_m = 10],
     [GatedFine EXCEPT !.dist_max_m = 0 - 10],
     [GatedFine EXCEPT !.front_min_m = 15, !.front_max_m = 3],
     [GatedFine EXCEPT !.front_max_m = 1800]}

\* Frame lengths (ref, mic) around the 1024-sample minimum.
EstLens == {<<1000, 1100>>, <<1100, 1023>>, <<1024, 1100>>, <<1100, 1100>>}

\* Pairs of frames: sample rate, finiteness, RMS gate, correlation shape.
EstInputs ==
    {[len_ref |-> l[1], len_mic |-> l[2], sr |-> sr, finite |-> f, quiet |-> q,
      kd |-> kd, hd |-> 90, ke |-> kd + dk, he |-> he, floor |-> fl] :
        l \in EstLens, sr \in {1000, 5000}, f \in BOOLEAN, q \in BOOLEAN,
        kd \in {0, 40, 208}, dk \in {1, 5, 9}, he \in {20, 90}, fl \in {0 - 10, 0}}

InitEst ==
    /\ mode = "presence"
    /\ cfg \in EstConfigs
    /\ ioFaults = FALSE
    /\ InitPipeline
    /\ InitLoop
    /\ InitAgg
    /\ \E x \in EstInputs : call = [fn |-> "estimate_from_ref", in |-> x,
                                    out |-> NoEstimate, done |-> FALSE]

\* The call returns, or panics.
EstimateCall ==
    /\ call.fn = "estimate_from_ref"
    /\ ~call.done
    /\ call' = [call EXCEPT !.out = EstimateFromRef(call.in, cfg), !.done = TRUE]
    /\ UNCHANGED <<ringVars, loopVars, aggVars, cfg>>

NextEst == EstimateCall

SpecEst == InitEst /\ [][NextEst]_vars

\* C13 (as amended): under a configuration with dist_max_m >= 0, a returned
\* Some((distance, strength)) has 0 <= distance <= dist_max_m and
\* 0 <= strength <= 1, and the echo lag k1 is not smaller than the
\* direct-path lag k0.
C13_EstimateInRange ==
    (call.fn = "estimate_from_ref" /\ call.done /\ call.out.kind = "some"
     /\ cfg.dist_max_m >= 0)
    => /\ call.out.d.n >= 0
       /\ call.out.d.n <= cfg.dist_max_m * call.out.d.d
       /\ call.out.s.n >= 0
       /\ call.out.s.n <= call.out.s.d
       /\ call.out.k1 >= call.out.k0

\* C13: an estimate was returned whose distance is the cap dist_max_m.
C13_Witness ==
    /\ call.fn = "estimate_from_ref"
    /\ call.done
    /\ call.out.kind = "some"
    /\ cfg.dist_max_m > 0
    /\ call.out.d.n = cfg.dist_max_m * call.out.d.d
    /\ (call.out.k1 - call.out.k0) * SoundDmPerS > cfg.dist_max_m * 2 * call.in.sr

\* C13 (as stated): the same under every configuration.
C13_EstimateInRangeAnyConfig ==
    (call.fn = "estimate_from_ref" /\ call.done /\ call.out.kind = "some")
    => /\ call.out.d.n >= 0
       /\ call.out.d.n <= cfg.dist_max_m * call.out.d.d
       /\ call.out.s.n >= 0
       /\ call.out.s.n <= call.out.s.d
       /\ call.out.k1 >= call.out.k0


\* C14: estimate_from_ref never panics; it returns None when
\* N = min(len(ref), len(mic)) < 1024, when max_echo <= min_echo and when
\* max_echo >= N; the echo band it reads lies inside the correlation array.
C14_EstimateNeverRaises ==
    (call.fn = "estimate_from_ref" /\ call.done) =>
       LET n == IF call.in.len_ref < call.in.len_mic THEN call.in.len_ref
                ELSE call.in.len_mic
           min_echo == (4 * cfg.front_min_m * call.in.sr + 3430) \div 6860
           max_echo == (4 * cfg.front_max_m * call.in.sr + 3430) \div 6860
       IN  /\ call.out.kind # "panic"
           /\ (n < 1024 \/ max_echo <= min_echo \/ max_echo >= n) => call.out.kind = "none"
           /\ call.out.kind = "some"
              => /\ call.out.k0 <= call.out.kmax
                 /\ call.out.lo <= call.out.k1
                 /\ call.out.k1 <= call.out.hi
                 /\ call.out.hi <= call.out.kmax
                 /\ call.out.i75 <= call.out.hi - call.out.lo
                 /\ call.out.i95 <= call.out.hi - call.out.lo


(***************************************************************************)
(* SpecSim: fp_similarity called on a pair of fingerprints, both ways      *)
(* round and on each with itself.                                          *)
(***************************************************************************)
\* The longest bins sequence tried.
MaxBins == 3

RECURSIVE SeqsUpTo(_, _)
SeqsUpTo(S, n) ==
    IF n = 0 THEN {<<>>}
    ELSE SeqsUpTo(S, n - 1) \cup {Append(s, x) : s \in {q \in SeqsUpTo(S, n - 1) : Len(q) = n - 1}, x \in S}

\* Fingerprints: bandpeak_v1 with 8 bands, another band count or another
\* type; a hop of 250 ms (a lag grid symmetric about 0) or 300 ms; bins over
\* two band indices.
Fingerprints ==
    {[fp_type |-> k[1], bands |-> k[2], hop_s |-> h, bins |-> bs] :
        k \in {<<"bandpeak_v1", 8>>, <<"bandpeak_v1", 16>>, <<"other", 8>>},
        h \in {250, 300}, bs \in SeqsUpTo({0, 1}, MaxBins)}

InitSim ==
    /\ mode = "gated"
    /\ cfg = GatedFine
    /\ ioFaults = FALSE
    /\ InitPipeline
    /\ InitLoop
    /\ InitAgg
    /\ \E a \in Fingerprints, b \in Fingerprints :
          /\ a.fp_type = "bandpeak_v1"
          /\ a.bands = 8
          /\ call = [fn |-> "fp_similarity", in |-> <<a, b>>,
                     out |-> [ab |-> [n |-> 0, d |-> 1], ba |-> [n |-> 0, d |-> 1],
                              aa |-> [n |-> 0, d |-> 1]],
                     done |-> FALSE]

\* The three calls return.
SimilarityCall ==
    /\ call.fn = "fp_similarity"
    /\ ~call.done
    /\ call' = [call EXCEPT !.out = [ab |-> FpSimilarity(call.in[1], call.in[2]),
                                     ba |-> FpSimilarity(call.in[2], call.in[1]),
                                     aa |-> FpSimilarity(call.in[1], call.in[1])],
                            !.done = TRUE]
    /\ UNCHANGED <<ringVars, loopVars, aggVars, cfg>>

NextSim == SimilarityCall

SpecSim == InitSim /\ [][NextSim]_vars

\* C15 (as amended): for every fingerprint a with at least two bins,
\* fp_similarity(a, a) = 1.0.
C15_SelfSimilarityIsOne ==
    (call.fn = "fp_similarity" /\ call.done /\ Len(call.in[1].bins) >= 2)
    => (call.out.aa.n = call.out.aa.d /\ call.out.aa.d > 0)

\* C15: a fingerprint of three bins was compared with itself.
C15_Witness ==
    /\ call.fn = "fp_similarity"
    /\ call.done
    /\ Len(call.in[1].bins) = 3
    /\ call.out.aa.n = call.out.aa.d

\* C15 (as stated): the same for every fingerprint with non-empty bins.
C15_SelfSimilarityNonEmpty ==
    (call.fn = "fp_similarity" /\ call.done /\ Len(call.in[1].bins) >= 1)
    => (call.out.aa.n = call.out.aa.d /\ call.out.aa.d > 0)

\* C16 (as amended): fp_similarity is always in [0,1] and is 0 on a bands
\* mismatch or when either bins sequence is empty; for a and b of equal
\* type and bands, an equal hop_s that divides 0.5 s, and bins sequences of
\* equal length, fp_similarity(a, b) = fp_similarity(b, a).
C16_SymmetricOnEqualGrid ==
    (call.fn = "fp_similarity" /\ call.done) =>
       LET a == call.in[1]
           b == call.in[2]
       IN  /\ call.out.ab.n >= 0
           /\ call.out.ab.n <= call.out.ab.d
           /\ (\/ a.fp_type # b.fp_type
               \/ a.bands # b.bands
               \/ Len(a.bins) = 0
               \/ Len(b.bins) = 0) => call.out.ab.n = 0
           /\ (/\ a.fp_type = b.fp_type
               /\ a.bands = b.bands
               /\ a.hop_s = b.hop_s
               /\ 500 % a.hop_s = 0
               /\ Len(a.bins) = Len(b.bins))
              => call.out.ab.n * call.out.ba.d = call.out.ba.n * call.out.ab.d

\* C16: two different fingerprints of equal length on the same 250 ms grid
\* have a similarity strictly between 0 and 1.
C16_Witness ==
    /\ call.fn = "fp_similarity"
    /\ call.done
    /\ call.in[1].fp_type = call.in[2].fp_type
    /\ call.in[1].bands = call.in[2].bands
    /\ call.in[1].hop_s = 250
    /\ call.in[2].hop_s = 250
    /\ Len(call.in[1].bins) = Len(call.in[2].bins)
    /\ call.in[1].bins # call.in[2].bins
    /\ call.out.ab.n > 0
    /\ call.out.ab.n < call.out.ab.d

\* C16 (as stated): fp_similarity(a, b) = fp_similarity(b, a) for all a and b
\* of equal type and bands, whatever their lengths.
C16_SymmetricAnyLength ==
    (/\ call.fn = "fp_similarity"
     /\ call.done
     /\ call.in[1].fp_type = call.in[2].fp_type
     /\ call.in[1].bands = call.in[2].bands)
    => call.out.ab.n * call.out.ba.d = call.out.ba.n * call.out.ab.d


(***************************************************************************)
(* SpecHex: to_hex followed by from_hex on byte sequences, and from_hex on *)
(* arbitrary strings.                                                      *)
(***************************************************************************)
\* The longest byte sequence and the longest string tried.
MaxBytes == 2
MaxChars == 3

\* Bytes with a zero, a low, a mixed and the highest nibble pair.
ByteVals == {0, 10, 171, 255}

\* Characters: lower- and upper-case digits and two that are no hex digits.
CharVals == {"0", "a", "F", "g", " "}

InitHex ==
    /\ mode = "gated"
    /\ cfg = GatedFine
    /\ ioFaults = FALSE
    /\ InitPipeline
    /\ InitLoop
    /\ InitAgg
    /\ \/ \E bs \in SeqsUpTo(ByteVals, MaxBytes) :
             call = [fn |-> "to_hex", in |-> bs,
                     out |-> [hex |-> <<>>, back |-> [some |-> FALSE, bytes |-> <<>>]],
                     done |-> FALSE]
       \/ \E s \in SeqsUpTo(CharVals, MaxChars) :
             call = [fn |-> "from_hex", in |-> s,
                     out |-> [hex |-> <<>>, back |-> [some |-> FALSE, bytes |-> <<>>]],
                     done |-> FALSE]

\* to_hex(bs), then from_hex of what it wrote.
HexRoundTrip ==
    /\ call.fn = "to_hex"
    /\ ~call.done
    /\ call' = [call EXCEPT !.out = [hex |-> to_hex(call.in),
                                     back |-> from_hex(to_hex(call.in))],
                            !.done = TRUE]
    /\ UNCHANGED <<ringVars, loopVars, aggVars, cfg>>

\* from_hex(s) on a string.
FromHexCall ==
    /\ call.fn = "from_hex"
    /\ ~call.done
    /\ call' = [call EXCEPT !.out = [hex |-> call.in, back |-> from_hex(call.in)],
                            !.done = TRUE]
    /\ UNCHANGED <<ringVars, loopVars, aggVars, cfg>>

NextHex ==
    \/ HexRoundTrip
    \/ FromHexCall

SpecHex == InitHex /\ [][NextHex]_vars

\* C17: from_hex(to_hex(bs)) = Some(bs); to_hex(bs) has 2 * len(bs)
\* characters, each a lower-case hex digit; from_hex returns None for a
\* string of odd length or with a character that is no hex digit.
C17_HexRoundTrip ==
    /\ (call.fn = "to_hex" /\ call.done) =>
          /\ call.out.back.some
          /\ call.out.back.bytes = call.in
          /\ Len(call.out.hex) = 2 * Len(call.in)
          /\ \A i \in 1..Len(call.out.hex) :
                call.out.hex[i] \in {"0", "1", "2", "3", "4", "5", "6", "7", "8", "9",
                                     "a", "b", "c", "d", "e", "f"}
    /\ (/\ call.fn = "from_hex"
        /\ call.done
        /\ \/ Len(call.in) % 2 = 1
           \/ \E i \in 1..Len(call.in) :
                 call.in[i] \notin {"0", "1", "2", "3", "4", "5", "6", "7", "8", "9",
                                    "a", "b", "c", "d", "e", "f",
                                    "A", "B", "C", "D", "E", "F"})
       => ~call.out.back.some

\* C17: the bytes 0x0a 0xab went through to_hex and came back.
C17_Witness ==
    /\ call.fn = "to_hex"
    /\ call.done
    /\ call.in = <<10, 171>>
    /\ call.out.hex = <<"0", "a", "a", "b">>
    /\ call.out.back.bytes = <<10, 171>>


(***************************************************************************)
(* SpecScan: parse_scansong on a header line and up to MaxLines data       *)
(* lines.                                                                  *)
(***************************************************************************)
MaxLines == 2

\* The columns parse_scansong looks up, in the order scan.rs writes them.
ScanColumns ==
    <<"url", "start_s", "end_s", "fp_type", "fp_bands", "fp_hop_s", "fp_offset_s",
      "fp_bins_hex">>

\* Header lines: as written, fingerprint columns first, one column missing.
Headers ==
    { ScanColumns,
      <<"fp_type", "fp_bands", "fp_hop_s", "fp_offset_s", "fp_bins_hex", "url",
        "start_s", "end_s">>,
      <<"url", "start_s", "end_s", "fp_type", "fp_bands", "fp_hop_s", "fp_offset_s">> }

\* A row as scan.rs writes it for url u and start s.
ScanRow(u, s) ==
    [url |-> u, start_s |-> s, end_s |-> "9", fp_type |-> "bandpeak_v1", fp_bands |-> "8",
     fp_hop_s |-> "0.25", fp_offset_s |-> "0", fp_bins_hex |-> "0a"]

\* Rows by column name: written rows, and rows edited by hand.
RowFields ==
    { ScanRow("u", "1"), ScanRow("u", "5"), ScanRow(" u", "9"), ScanRow("v", "1"),
      ScanRow("", "1"), ScanRow("u", "NaN"),
      [ScanRow("u", "5") EXCEPT !.fp_type = ""],
      [ScanRow("v", "5") EXCEPT !.fp_bins_hex = "0g"],
      [ScanRow("v", "9") EXCEPT !.fp_bands = "x"],
      [ScanRow("v", "5") EXCEPT !.fp_hop_s = "NaN"] }

\* How many cells of a row are present.
RowWidths == {3, 8}

\* The cells of a row under a header, cut to n cells.
RowCells(cols, f, n) ==
    [i \in 1..(IF n < Len(cols) THEN n ELSE Len(cols)) |-> f[cols[i]]]

\* The data lines a file with this header can hold: rows and a blank line.
LinesOf(cols) ==
    {RowCells(cols, f, n) : f \in RowFields, n \in RowWidths}
        \cup {RowCells(cols, ScanRow("u", "1"), 1), <<" ">>}

InitScan ==
    /\ mode = "gated"
    /\ cfg = GatedFine
    /\ ioFaults = FALSE
    /\ InitPipeline
    /\ InitLoop
    /\ InitAgg
    /\ \E header \in Headers :
          \E lines \in SeqsUpTo(LinesOf(header), MaxLines) :
             call = [fn |-> "parse_scansong", in |-> [header |-> header, lines |-> lines],
                     out |-> [kind |-> "none", songs |-> <<>>], done |-> FALSE]

\* parse_scansong(csv_path, logger) on the file drawn.
ParseCall ==
    /\ call.fn = "parse_scansong"
    /\ ~call.done
    /\ call' = [call EXCEPT !.out = parse_scansong(call.in.header, call.in.lines),
                            !.done = TRUE]
    /\ UNCHANGED <<ringVars, loopVars, aggVars, cfg>>

NextScan == ParseCall

SpecScan == InitScan /\ [][NextScan]_vars

\* C18: with a complete header the load does not fail, whatever the data
\* rows (a row with too few columns is skipped); the result has exactly one
\* entry per URL that has a row with a parseable fingerprint, and none for
\* any other URL; an entry's segments are all of that URL's rows, ascending
\* by start_s.
C18_LoaderGroupsAndSorts ==
    (/\ call.fn = "parse_scansong"
     /\ call.done
     /\ \A i \in 1..Len(ScanColumns) :
           \E j \in 1..Len(call.in.header) : call.in.header[j] = ScanColumns[i])
    => LET ix == ColumnIndex(call.in.header)
           lines == call.in.lines
           got == call.out.songs
           Counted(i, u) == Len(lines[i]) >= ix.end /\ Trim(lines[i][ix.url]) = u /\ u # ""
           Parseable(r) ==
               /\ Len(r) >= Len(call.in.header)
               /\ Trim(r[ix.fp_type]) # ""
               /\ ParseUsize(Trim(r[ix.fp_bands])) > 0
               /\ ~ParseF32(Trim(r[ix.fp_hop])).nan
               /\ ParseF32(Trim(r[ix.fp_hop])).v > 0
               /\ Trim(r[ix.fp_bins]) # ""
               /\ from_hex(Chars(Trim(r[ix.fp_bins]))).some
           SegOf(r) == [a |-> ParseF32(Trim(r[ix.start])), b |-> ParseF32(Trim(r[ix.end]))]
       IN  /\ call.out.kind = "ok"
           /\ \A i, j \in 1..Len(got) : got[i].url = got[j].url => i = j
           /\ \A u \in {"u", "v", ""} :
                 (\E k \in 1..Len(got) : got[k].url = u)
                    <=> (\E i \in 1..Len(lines) : Counted(i, u) /\ Parseable(lines[i]))
           /\ \A k \in 1..Len(got) :
                 /\ \A i, j \in 1..Len(got[k].segs) :
                       i < j => got[k].segs[i].a.v <= got[k].segs[j].a.v
                 /\ \A i \in 1..Len(lines) :
                       Counted(i, got[k].url) =>
                          Cardinality({j \in 1..Len(got[k].segs) :
                                          got[k].segs[j] = SegOf(lines[i])})
                             = Cardinality({j \in 1..Len(lines) :
                                              /\ Counted(j, got[k].url)
                                              /\ SegOf(lines[j]) = SegOf(lines[i])})
                 /\ Len(got[k].segs)
                       = Cardinality({j \in 1..Len(lines) : Counted(j, got[k].url)})


(***************************************************************************)
(* SpecMain: the process from main() to its exit code, in the presence and *)
(* gated modes.  call.in is the environment, call.out the position, the    *)
(* cause of the return and the exit code.                                  *)
(***************************************************************************)
\* What the command line is: valid, --help, or one of the parse errors.
ArgKinds == {"ok", "help", "unknown_option", "missing_value", "bad_value"}

\* The environments of a run: the command line, the mode, whether the log
\* and CSV files can be opened, whether the host has a default input
\* device, and whether wasapi_loopback::start succeeds.
MainEnvs ==
    [args : ArgKinds, mode : {"presence", "gated"}, files : BOOLEAN, device : BOOLEAN,
     loopback : BOOLEAN]

NoExit == [at |-> "parse_arguments", cause |-> "none", result |-> "none",
           code |-> [some |-> FALSE, v |-> 0]]

InitMain ==
    /\ mode = "gated"
    /\ cfg = GatedFine
    /\ ioFaults = FALSE
    /\ InitPipeline
    /\ InitLoop
    /\ InitAgg
    /\ \E env \in MainEnvs : call = [fn |-> "main", in |-> env, out |-> NoExit, done |-> FALSE]

\* What does not change when only call changes.
MainFrame == UNCHANGED <<ringVars, loopVars, aggVars, cfg>>

\* main: match parse_arguments().  --help leaves with exit(0) from inside
\* parse_arguments, an Err leaves with exit(1).
ParseArguments ==
    /\ call.fn = "main"
    /\ call.out.at = "parse_arguments"
    /\ call' = IF call.in.args = "ok"
               THEN [call EXCEPT !.out.at = "setup"]
               ELSE [call EXCEPT !.out.at = "exited",
                                 !.out.cause = IF call.in.args = "help" THEN "help" ELSE "config",
                                 !.out.code = [some |-> TRUE,
                                               v |-> IF call.in.args = "help" THEN 0 ELSE 1],
                                 !.done = TRUE]
    /\ MainFrame

\* Logger::new_with_level(..)?, and in run_presence / run_gated the files
\* opened before the Ctrl+C handler is installed: each failure is an Err
\* that main returns.
OpenFiles ==
    /\ call.fn = "main"
    /\ call.out.at = "setup"
    /\ call' = IF call.in.files
               THEN [call EXCEPT !.out.at = "open_device"]
               ELSE [call EXCEPT !.out.at = "returned", !.out.cause = "files",
                                 !.out.result = "err"]
    /\ MainFrame

\* host.default_input_device().ok_or_else(..)?
OpenDevice ==
    /\ call.fn = "main"
    /\ call.out.at = "open_device"
    /\ call' = IF call.in.device
               THEN [call EXCEPT !.out.at = "start_loopback"]
               ELSE [call EXCEPT !.out.at = "returned", !.out.cause = "no_input_device",
                                 !.out.result = "err"]
    /\ MainFrame

\* wasapi_loopback::start(..)?
StartLoopback ==
    /\ call.fn = "main"
    /\ call.out.at = "start_loopback"
    /\ call' = IF call.in.loopback
               THEN [call EXCEPT !.out.at = "loop"]
               ELSE [call EXCEPT !.out.at = "returned", !.out.cause = "loopback_failed",
                                 !.out.result = "err"]
    /\ MainFrame

\* The Ctrl+C handler, installed before the device is opened.
CtrlC ==
    /\ call.fn = "main"
    /\ call.out.at \in {"open_device", "start_loopback", "loop"}
    /\ ~quit
    /\ quit' = TRUE
    /\ UNCHANGED <<mode, pc, now, next, ticks, analyzer, smooth_present, last_flip,
                   aligned, csv, loc, lastChange, ioFaults>>
    /\ UNCHANGED <<ringVars, aggVars, cfg, call>>

\* while !quit.load() { .. } ends and the loop function returns Ok(()).
LoopReturn ==
    /\ call.fn = "main"
    /\ call.out.at = "loop"
    /\ quit
    /\ call' = [call EXCEPT !.out.at = "returned", !.out.cause = "ctrl_c",
                            !.out.result = "ok"]
    /\ MainFrame

\* fn main() -> Result<()> returns: the runtime exits with 0 for Ok and
\* with 1 for Err.
ProcessExit ==
    /\ call.fn = "main"
    /\ call.out.at = "returned"
    /\ call' = [call EXCEPT !.out.at = "exited",
                            !.out.code = [some |-> TRUE,
                                          v |-> IF call.out.result = "ok" THEN 0 ELSE 1],
                            !.done = TRUE]
    /\ MainFrame

NextMain ==
    \/ ParseArguments
    \/ OpenFiles
    \/ OpenDevice
    \/ StartLoopback
    \/ CtrlC
    \/ LoopReturn
    \/ ProcessExit

SpecMain == InitMain /\ [][NextMain]_vars

\* C19: the exit code is 0 after Ctrl+C, 1 after a configuration error and
\* 2 when capture is unavailable (no default input device, or the loopback
\* does not start).
C19_ExitCodes ==
    (call.fn = "main" /\ call.done)
    => /\ call.out.cause = "ctrl_c" => call.out.code.v = 0
       /\ call.out.cause = "config" => call.out.code.v = 1
       /\ call.out.cause \in {"no_input_device", "loopback_failed"} => call.out.code.v = 2


(***************************************************************************)
(* SpecQuit: the two loops, the presence loop with a tick period shorter   *)
(* than the work of an iteration can be, and log writes that may fail.     *)
(***************************************************************************)
\* --tick-ms 500: an iteration that works for 1000 ms overruns its period.
PresenceFast == [PresenceCfg EXCEPT !.tick_ms = 500, !.window_sec = 1]

InitQuit ==
    /\ \E r \in {<<"presence", PresenceFast>>, <<"gated", GatedCoarse>>} :
          mode = r[1] /\ cfg = r[2]
    /\ ioFaults \in BOOLEAN
    /\ InitPipeline
    /\ InitLoop
    /\ InitAgg
    /\ InitCall

SpecQuit == InitQuit /\ [][Next]_vars

\* C20 (as stated): the flag is read once per tick; once it is set no
\* further tick starts, the loop returns Ok, and a tick during which the
\* flag is set ends within one tick period of its start.
C20_QuitWithinOneTick ==
    [][/\ quit => ticks' = ticks
       /\ (pc = "run" /\ quit /\ pc' # "run") => pc' = "stopped"
       /\ (pc = "run" /\ ~quit /\ quit' /\ ticks' = ticks + 1 /\ pc' = "run")
             => now' - now <= cfg.tick_ms]_vars

\* C20 (amended): once the flag is set no further tick starts; the loop
\* then returns, with Ok unless a log write fails; a tick during which the
\* flag is set ends one tick period after its start when its work fits in
\* the period, and at the end of its work when it overruns.
C20_QuitEndsLoop ==
    [][/\ quit => ticks' = ticks
       /\ (pc = "run" /\ quit /\ pc' # "run") => (pc' = "stopped" \/ ioFaults)
       /\ (pc = "run" /\ ~quit /\ quit' /\ ticks' = ticks + 1 /\ pc' = "run")
             => /\ loc'.slept => now' - now = cfg.tick_ms
                /\ ~loc'.slept => (now' = loc'.nowi /\ now' - now >= cfg.tick_ms)]_vars

\* C20: Ctrl+C arrived during an iteration that overran its period, and the
\* loop has returned Ok after it.
C20_Witness ==
    /\ quit
    /\ pc = "stopped"
    /\ ticks >= 2
    /\ loc.kind = "presence"
    /\ ~loc.slept
    /\ cfg.tick_ms = 500


(***************************************************************************)
(* SpecRate: the sample rates of the two rings, from the construction of   *)
(* the SharedBufs to the first tick.  call.in holds the rate the           *)
(* microphone runs at, the rate of the host mix format and whether each    *)
(* ring holds a full frame at the tick.                                    *)
(***************************************************************************)
\* Sample rates in Hz.
Rates == {44100, 48000, 96000}

RateEnvs ==
    [mode : {"presence", "gated"}, sr_mic : Rates, in_sr : Rates, mic_full : BOOLEAN,
     ref_full : BOOLEAN]

NoRates ==
    [at |-> "build", mic_sr |-> 0, ref_sr |-> 0, target_sr |-> 0, logged_sr |-> 0,
     sr_used |-> 0, ran_est |-> FALSE]

InitRate ==
    /\ mode = "gated"
    /\ cfg = GatedFine
    /\ ioFaults = FALSE
    /\ InitPipeline
    /\ InitLoop
    /\ InitAgg
    /\ \E env \in RateEnvs :
          call = [fn |-> "rates", in |-> env, out |-> NoRates, done |-> FALSE]

\* run_presence / run_gated: shared_mic and shared_ref are both built with
\* sr: Mutex::new(sr_mic); the loopback is started with sr_target = sr_mic.
BuildRings ==
    /\ call.fn = "rates"
    /\ call.out.at = "build"
    /\ call' = [call EXCEPT !.out.at = "capture",
                            !.out.mic_sr = call.in.sr_mic,
                            !.out.ref_sr = call.in.sr_mic,
                            !.out.target_sr = call.in.sr_mic]
    /\ MainFrame

\* capture_thread: GetMixFormat gives in_sr, which is written to the log;
\* the thread holds the Sender only, and no SharedBuf.
ReadMixFormat ==
    /\ call.fn = "rates"
    /\ call.out.at = "capture"
    /\ call' = [call EXCEPT !.out.at = "tick", !.out.logged_sr = call.in.in_sr]
    /\ MainFrame

\* One tick with both rings read: sr_used is shared_mic.sr, and the
\* estimator runs when both frames have analysis_len samples.
RateTick ==
    /\ call.fn = "rates"
    /\ call.out.at = "tick"
    /\ call' = [call EXCEPT !.out.at = "ticked",
                            !.out.sr_used = call.out.mic_sr,
                            !.out.ran_est = call.in.mic_full /\ call.in.ref_full,
                            !.done = TRUE]
    /\ MainFrame

NextRate ==
    \/ BuildRings
    \/ ReadMixFormat
    \/ RateTick

SpecRate == InitRate /\ [][NextRate]_vars

\* C21: the loopback ring records the sample rate the host mix format
\* delivers, and on a tick where that rate differs from the microphone
\* ring's rate the estimator is not run.
C21_RateMismatchSkipsTick ==
    (call.fn = "rates" /\ call.done)
    => /\ call.out.ref_sr = call.in.in_sr
       /\ call.out.ref_sr # call.out.mic_sr => ~call.out.ran_est
       /\ call.in.in_sr # call.in.sr_mic => ~call.out.ran_est


\* C22: an I/O error while a state-change event is emitted never ends
\* detection: in both modes, an iteration of the loop leaves the loop
\* running.
C22_EmissionErrorsSwallowed ==
    [][(pc = "run" /\ ticks' = ticks + 1) => pc' = "run"]_vars


(***************************************************************************)
(* SpecSend: the capturers and the sinks alone, with sinks that can end    *)
(* before their capturer does.                                             *)
(***************************************************************************)
NextSend ==
    \/ \E s \in Src : CapSend(s)
    \/ \E s \in Src : CapSendErr(s)
    \/ \E s \in Src : CapClose(s)
    \/ \E s \in Src : SinkRecv(s)
    \/ \E s \in Src : SinkLock(s)
    \/ \E s \in Src : SinkExtend(s)
    \/ \E s \in Src : SinkTrim(s)
    \/ \E s \in Src : SinkUnlock(s)
    \/ \E s \in Src : SinkAbort(s)

SpecSend == InitRing /\ [][NextSend]_vars

C24_RingIsSuffixOfStream ==
    \A s \in Src :
       LET total == IF sinkBlock[s] # <<>> THEN sinkBlock[s][1] - 1
                    ELSE IF chan[s] # <<>> THEN chan[s][1][1] - 1
                    ELSE sent[s]
           kept == Min(total, RingCap)
       IN  /\ sinkPc[s] \in {"recv", "lock", "done"}
              => ring[s] = [i \in 1..kept |-> total - kept + i]
           /\ sinkPc[s] = "done"
              => (closed[s] /\ chan[s] = <<>> /\ total = sent[s])

\* C24: a sink has ended after its capturer closed, with more samples sent
\* than the ring holds: the ring is the tail of the stream.
C24_Witness ==
    \E s \in Src :
        /\ sinkPc[s] = "done"
        /\ sent[s] > RingCap
        /\ Len(ring[s]) = RingCap
        /\ ring[s][1] = sent[s] - RingCap + 1
        /\ ring[s][RingCap] = sent[s]


\* C25: an iteration that stays in the loop moves the deadline by tick_ms,
\* then sleeps until the deadline when it is ahead of the clock and else
\* resets the deadline to the clock; so the deadline is never behind the
\* clock after pacing, and an iteration whose own work fits in the period
\* always ends with a sleep, whatever overran before it.
C25_PacingCatchUpWithoutBurst ==
    [][(pc = "run" /\ ticks' = ticks + 1 /\ pc' = "run")
          => /\ loc'.slept <=> next + cfg.tick_ms > loc'.nowi
             /\ loc'.slept => (next' = next + cfg.tick_ms /\ now' = next')
             /\ ~loc'.slept => (next' = loc'.nowi /\ now' = loc'.nowi)
             /\ next' >= now'
             /\ loc'.nowi - now < cfg.tick_ms => loc'.slept]_vars

\* C25: an iteration overran earlier (the clock is ahead of ticks * tick_ms)
\* and the latest iteration ended with a sleep until its deadline.
C25_Witness ==
    /\ pc = "run"
    /\ cfg.tick_ms = 500
    /\ ticks >= 3
    /\ now > cfg.tick_ms * ticks
    /\ loc.slept
    /\ next = now


\* C26: in presence mode every iteration appends exactly one entry to the
\* analyzer's window (a None when a snapshot is short or the estimator has
\* no candidate), the window keeping the latest cap entries, and a result
\* comes out only once cap iterations have pushed.
C26_OneEntryPerTick ==
    [][(mode = "presence" /\ ticks' = ticks + 1)
          => /\ Len(analyzer') = Min(Len(analyzer) + 1, AggCap(cfg))
             /\ loc'.out.some => ticks' >= AggCap(cfg)]_vars


\* C27: the sinks and the scheduler cannot deadlock on the ring mutexes.
\* Whoever holds a ring's sr mutex holds that ring's buf mutex (order buf
\* then sr, never the reverse); the scheduler never holds mutexes of both
\* rings; no mutex is held by a sink that waits in recv or has ended, nor by
\* the scheduler between two snapshots (where it computes and sleeps); and
\* whenever a thread waits for a mutex, its holder can take its next step.
C27_NoDeadlockOnRingMutexes ==
    /\ \A s \in Src : srLock[s] # "free" => bufLock[s] = srLock[s]
    /\ \A s \in Src : sinkPc[s] = "trim" => (bufLock[s] = "sink" /\ srLock[s] = "free")
    /\ ~(bufLock["mic"] = "sched" /\ bufLock["ref"] = "sched")
    /\ \A s \in Src : sinkPc[s] \in {"recv", "done"} => bufLock[s] # "sink"
    /\ schedPc \in {"idle", "mic_done"}
          => \A s \in Src : bufLock[s] # "sched" /\ srLock[s] # "sched"
    /\ \A s \in Src :
          (sinkPc[s] = "lock" /\ bufLock[s] = "sched")
             => \/ ENABLED SchedCopyFrame(s)
                \/ ENABLED SchedUnlockFrame(s)
                \/ ENABLED ArmLockSr
                \/ ENABLED ArmCopy
                \/ ENABLED ArmUnlock
    /\ \A s \in Src :
          bufLock[s] = "sink"
             => (ENABLED SinkExtend(s) \/ ENABLED SinkTrim(s) \/ ENABLED SinkUnlock(s))

\* C27: the scheduler holds buf and sr of the loopback ring while that
\* ring's sink waits for buf and the other sink holds the microphone ring.
C27_Witness ==
    /\ bufLock["ref"] = "sched"
    /\ srLock["ref"] = "sched"
    /\ sinkPc["ref"] = "lock"
    /\ bufLock["mic"] = "sink"
    /\ sinkPc["mic"] = "trim"


\* C28: the records appended to Detection.csv alternate in their present
\* field, the first one carrying present = true; no two consecutive records
\* carry the same value, also across a drop of the alignment.
C28_RecordsAlternate ==
    /\ csv # <<>> => csv[1].present
    /\ \A i \in 1..(Len(csv) - 1) : csv[i + 1].present # csv[i].present


\* C29: in gated mode the state is Present only while an alignment exists
\* (aligned = None implies Absent, in every state), and an iteration that
\* starts without an alignment pushes nothing into the aggregator and
\* leaves the state and last_flip unchanged.
C29_PresentOnlyWhileAligned ==
    [][/\ (mode = "gated" /\ ~aligned.some) => ~smooth_present
       /\ (mode = "gated" /\ ~aligned'.some) => ~smooth_present'
       /\ (mode = "gated" /\ ~aligned.some /\ ticks' = ticks + 1)
             => /\ agg' = agg
                /\ smooth_present' = smooth_present
                /\ last_flip' = last_flip
                /\ csv' = csv]_vars

\* C29: an alignment was dropped while the state was Present, and an
\* arming iteration has run since, with the aggregator still holding votes.
C29_Witness ==
    /\ mode = "gated"
    /\ ~aligned.some
    /\ loc.kind = "arming"
    /\ lastChange.by = "drop"
    /\ agg # <<>>
    /\ ~smooth_present


(***************************************************************************)
(* The gated loop with a guard wider than the 60 s drop delay and a window *)
(* of three ticks: the run in which an alignment is dropped on the first   *)
(* iteration outside the guarded segment.                                  *)
(***************************************************************************)
InitCarry ==
    /\ mode = "gated"
    /\ cfg = GatedCarry
    /\ ioFaults = FALSE
    /\ InitPipeline
    /\ InitLoop
    /\ InitAgg
    /\ InitCall

NextCarry ==
    \/ SetQuit
    \/ LoopExit
    \/ GatedArm
    \/ GatedRun

SpecCarry == InitCarry /\ [][NextCarry]_vars

\* C30: in gated mode, when an alignment is dropped every vote still in the
\* aggregator window is None, and so when the next alignment is established
\* the window holds no non-None vote of the previous track.
C30_WindowClearAtDrop ==
    [][/\ (mode = "gated" /\ aligned.some /\ ~aligned'.some)
             => \A i \in 1..Len(agg') : ~agg'[i].some
       /\ (mode = "gated" /\ ~aligned.some /\ aligned'.some)
             => \A i \in 1..Len(agg') : ~agg'[i].some]_vars
====
